---- MODULE Spec2Model ----
(***************************************************************************)
(* Credit-gated LLM gateway: the credit ledger (services/credit_service.py) *)
(* kept in Firestore, the three HTTP handlers of app/api.py, the router     *)
(* (services/llm_router.py), the adapter factory (llms/llm_factory.py) and  *)
(* the failure policy of the five provider adapters (llms/llm_*.py).        *)
(*                                                                         *)
(* Every HTTP request is served by its own worker (a process p of Procs).   *)
(* A handler is cut exactly at its Firestore round trips (get / set /       *)
(* update / add): each round trip is one atomic step of the store, and the  *)
(* steps of different requests interleave freely.  Everything a handler     *)
(* computes locally between two round trips belongs to the step of the      *)
(* round trip that precedes it.                                             *)
(***************************************************************************)
EXTENDS Integers, Sequences, FiniteSets, Bags, TLC

-----------------------------------------------------------------------------
(* Bounds of the model *)

\* number of HTTP requests accepted in one behaviour
MaxRequests == 3

\* the request workers: two requests are served concurrently
Procs == {"w1", "w2"}

\* authenticated user ids (request.user_id set by require_auth); every claim
\* is about the requests made against one account
Users == {"u1"}

-----------------------------------------------------------------------------
(* Configuration (configs/config.<env>.yaml read through config.py) *)

\* config.get('app.free_credits', 10)
free_credits == 10

\* llm_models section of the configuration: model name -> model config.
\* The names are those used by test_llm.py; "llmlegacy" is an entry whose
\* provider the factory does not know; "llmgemininokey" has no api_key.
llm_models ==
  [ llmopenaigpt     |-> [provider |-> "openai",    cost |-> 4,  api_key |-> TRUE],
    llmclaudehaiku35 |-> [provider |-> "anthropic", cost |-> 4,  api_key |-> TRUE],
    llmgemini        |-> [provider |-> "google",    cost |-> 4,  api_key |-> TRUE],
    llmgemininokey   |-> [provider |-> "google",    cost |-> 4,  api_key |-> FALSE],
    llmdeepseek      |-> [provider |-> "deepseek",  cost |-> 2,  api_key |-> TRUE],
    llmgrok          |-> [provider |-> "xai",       cost |-> 12, api_key |-> TRUE],
    llmlegacy        |-> [provider |-> "cohere",    cost |-> 2,  api_key |-> TRUE] ]

ConfiguredModels == DOMAIN llm_models

\* the empty dict {} that Config.get_llm_config returns for a missing entry
EmptyConfig == [provider |-> "", cost |-> 0, api_key |-> FALSE]

\* Config.get_llm_config: self.get(f'llm_models.{model_name}', {})
get_llm_config(model_name) ==
  IF model_name \in ConfiguredModels THEN llm_models[model_name] ELSE EmptyConfig

\* variant of get_model_cost that charges one credit for a model without config
get_model_cost_default_one(model_name) ==
  LET model_config == get_llm_config(model_name)
  IN  IF model_config # EmptyConfig THEN model_config.cost ELSE 1

\* LLMRouter.get_model_cost:
\*   model_config.get('cost', 0) if model_config else 0
get_model_cost(model_name) ==
  LET model_config == get_llm_config(model_name)
  IN  IF model_config # EmptyConfig THEN model_config.cost ELSE 0

KnownProviders == {"openai", "anthropic", "google", "deepseek", "xai"}

\* create_llm and the adapter constructors it calls: TRUE when the call raises
\* ValueError (no config entry, unknown provider, Gemini without api_key).
create_llm_raises(model_name) ==
  LET model_config == get_llm_config(model_name)
  IN  \/ model_config = EmptyConfig
      \/ model_config.provider \notin KnownProviders
      \/ (model_config.provider = "google" /\ ~model_config.api_key)

-----------------------------------------------------------------------------
(* Provider adapters: llm_response of the five adapters.                     *)
(* A message is a sequence of tokens (the words of the string), so that the  *)
(* prefix of an error string is something a formula can look at.  A result   *)
(* is the returned dict: the set of its keys, and the values under "message"  *)
(* and "function_call" ("None" is Python's None).  raised = TRUE stands for   *)
(* an exception leaving llm_response instead of a returned dict.             *)

\* where an exception is raised while llm_response runs: nowhere, while the
\* request is translated, inside the provider call, while the response is parsed
Faults == {"none", "translate", "call", "parse"}

\* what the provider answered: its text (possibly empty) and the name of the
\* function it asks to call ("None": no tool invocation)
Replies == [text : {<<>>, <<"hi">>}, call : {"None", "get_weather"}]

Returned(keys, message, function_call) ==
  [raised |-> FALSE, keys |-> keys, message |-> message, function_call |-> function_call]

\* the dict built by an except clause: {"message": f"<prefix> {e}", "function_call": None}
ErrorDict(prefix, detail) ==
  Returned({"message", "function_call"}, prefix \o <<detail>>, "None")

\* result = {}; if message_text: result["message"] = ...; if function_call: ...
OptionalKeys(reply) ==
  (IF reply.text # <<>> THEN {"message"} ELSE {})
    \cup (IF reply.call # "None" THEN {"function_call"} ELSE {})

\* LlmOpenAi.parse_response
OpenAiParse(reply) ==
  IF OptionalKeys(reply) = {}
    THEN Returned({"message"}, <<"No", "response", "generated">>, "None")
    ELSE Returned(OptionalKeys(reply), reply.text, reply.call)

\* LlmOpenAi.llm_response: one try block around everything
OpenAiLlmResponse(fault, reply) ==
  IF fault # "none" THEN ErrorDict(<<"OpenAI", "Error:">>, fault)
  ELSE OpenAiParse(reply)

\* LlmAnthropic.parse_response: no placeholder when nothing was returned
AnthropicParse(reply) ==
  Returned(OptionalKeys(reply), reply.text, reply.call)

\* LlmAnthropic.llm_response
AnthropicLlmResponse(fault, reply) ==
  IF fault # "none" THEN ErrorDict(<<"Claude", "Error:">>, fault)
  ELSE AnthropicParse(reply)

\* LlmGemini._parse_response; its own try/except returns a dict of its own
GeminiParse(fault, reply) ==
  IF fault = "parse"
    THEN ErrorDict(<<"Error", "parsing", "Gemini", "response:">>, fault)
  ELSE IF OptionalKeys(reply) = {}
    THEN Returned({"message"}, <<>>, "None")
    ELSE Returned(OptionalKeys(reply), reply.text, reply.call)

\* LlmGemini.llm_response
GeminiLlmResponse(fault, reply) ==
  IF fault \in {"translate", "call"}
    THEN ErrorDict(<<"Gemini", "Critical", "Error:">>, fault)
  ELSE GeminiParse(fault, reply)

\* LlmDeepSeek.parse_response: result = {"message": message_text} always
DeepSeekParse(reply) ==
  Returned({"message"} \cup OptionalKeys(reply), reply.text, reply.call)

\* variant of LlmDeepSeek.llm_response without the try/except: the exception
\* leaves llm_response
DeepSeekLlmResponseUncaught(fault, reply) ==
  IF fault # "none" THEN [Returned({}, <<>>, "None") EXCEPT !.raised = TRUE]
  ELSE DeepSeekParse(reply)

\* LlmDeepSeek.llm_response
DeepSeekLlmResponse(fault, reply) ==
  IF fault # "none" THEN ErrorDict(<<"DeepSeek", "Error:">>, fault)
  ELSE DeepSeekParse(reply)

\* LlmGrok.parse_response
GrokParse(reply) ==
  Returned({"message"} \cup OptionalKeys(reply), reply.text, reply.call)

\* variant of LlmGrok.llm_response that parses the response after the try block:
\* an exception of parse_response leaves llm_response
GrokLlmResponseParseOutside(fault, reply) ==
  IF fault = "parse" THEN [Returned({}, <<>>, "None") EXCEPT !.raised = TRUE]
  ELSE IF fault # "none" THEN ErrorDict(<<"Grok", "Error:">>, fault)
  ELSE GrokParse(reply)

\* LlmGrok.llm_response
GrokLlmResponse(fault, reply) ==
  IF fault # "none" THEN ErrorDict(<<"Grok", "Error:">>, fault)
  ELSE GrokParse(reply)

\* llm.llm_response(complete_chat) of the adapter create_llm built for provider
llm_response(provider, fault, reply) ==
  CASE provider = "openai"    -> OpenAiLlmResponse(fault, reply)
    [] provider = "anthropic" -> AnthropicLlmResponse(fault, reply)
    [] provider = "google"    -> GeminiLlmResponse(fault, reply)
    [] provider = "deepseek"  -> DeepSeekLlmResponse(fault, reply)
    [] provider = "xai"       -> GrokLlmResponse(fault, reply)

\* response.get('message', '') and response.get('function_call') in api.py
DictGet(result, key, default) ==
  IF key \in result.keys
    THEN (IF key = "message" THEN result.message ELSE result.function_call)
    ELSE default

-----------------------------------------------------------------------------
(* State *)

VARIABLES
  credits,       \* Firestore collection 'credits': user id -> account document
  transactions,  \* Firestore collection 'transactions': a bag of documents
  pc,            \* per worker: where its handler stands
  req,           \* per worker: the request it serves
  loc,           \* per worker: the handler's local variables
  out,           \* per worker: the HTTP response it returned
  hist,          \* per worker: history of the call (observation only)
  initCount,     \* per user: how often initialize_user wrote the account (observation only)
  started,       \* number of requests accepted so far
  adapter,       \* one llm_response call looked at on its own (SpecAdapter)
  router,        \* the LLMRouter objects of the workers and their adapter instances (SpecRouter)
  wire,          \* one translation of a conversation history looked at on its own (SpecWire)
  step           \* one step of llm_response looked at on its own: building the tools, attaching
                 \* the images, calling the provider, parsing its response

vars == <<credits, transactions, pc, req, loc, out, hist, initCount, started, adapter, router, wire, step>>

\* a document that does not exist (doc.exists is False)
NoDoc == [exists |-> FALSE, balance |-> 0, total_used |-> 0]

\* the fixed text of the insufficient-credit response (api.py:39)
InsufficientMessage == <<"You", "don't", "have", "enough", "Lexi", "Credit">>

\* request inputs
\* llm_class_name: "llmghost" has no config entry, "" is a missing name
ModelNames == ConfiguredModels \cup {"llmghost", ""}
\* the model names the requests of Spec carry: an affordable model, one that
\* costs more than the free credits, an unknown one and a missing one
RequestModels == {"llmdeepseek", "llmgrok", "llmghost", ""}
\* the provider outcomes the requests of Spec meet: an answer with a text and
\* a tool invocation, or a failure of the provider call
RequestFaults == {"none", "call"}
RequestReplies == {r \in Replies : r.text # <<>> /\ r.call # "None"}
\* complete_chat: a non-empty dict, or absent/empty
ChatInputs == {"dict", "missing"}
\* the query_type field of the request body
QueryTypes == {"chat", "summary"}
\* lexi_credits_added: absent, not parseable by float(), or a number
AmountInputs ==
  {[kind |-> "missing", value |-> 0], [kind |-> "invalid", value |-> 0]}
    \cup {[kind |-> "number", value |-> v] : v \in {-3, 4}}

NoReq == [op |-> "none", user |-> "", model |-> "", chat |-> "", qtype |-> "", amount |-> 0]
NoLoc == [ret |-> "", cost |-> 0, cur |-> NoDoc, new_balance |-> 0, resp |-> Returned({}, <<>>, "None")]
NoOut == [status |-> 0, keys |-> {}, message |-> <<>>, function_call |-> "None", balance |-> 0]
\* History of one call: pre/existed are the balance get_balance would report and
\* the existence of the account when the call was accepted, kept as long as alone
\* holds, that is as long as no other worker held a request of the same user
\* during the call; short is TRUE when the balance seen by the sufficiency check
\* was below the cost; fault is where the adapter call failed; the rest count
\* what the call did (document reads, sufficiency checks, adapter invocations,
\* adapter responses obtained, initialize_user calls, balance updates by
\* deduct_credits and add_credits, transactions appended).
NoHist == [pre |-> 0, existed |-> FALSE, alone |-> TRUE, short |-> FALSE, fault |-> "none",
           checks |-> 0, reads |-> 0, invoked |-> 0, responded |-> 0, inits |-> 0,
           debits |-> 0, credited |-> 0, usage |-> 0, recharge |-> 0]

NoAdapter == [stage |-> "unused", provider |-> "", fault |-> "none",
              reply |-> [text |-> <<>>, call |-> "None"], result |-> Returned({}, <<>>, "None")]

\* Model names and instructions the router of SpecRouter is called with: a
\* Gemini model, a DeepSeek model and a name without config entry; "None" is
\* an absent (or empty) instruction
RouterModels == {"llmgemini", "llmdeepseek", "llmghost"}
Instructions == {"None", "be brief", "be formal"}

\* an adapter object: BaseLLM.__init__ sets cost from the config and
\* instruction to None; NoInstance: no such object
NoInstance == [exists |-> FALSE, provider |-> "", cost |-> 0, instruction |-> "None"]

\* result of the last operation of a worker on its router (observation only):
\* the cache before the operation, adapters constructed by it, whether it
\* raised, the cost returned, the request's own instruction and the system
\* instruction sent to the provider
NoLast == [op |-> "none", model |-> "", raised |-> FALSE, value |-> 0, constructed |-> 0,
           own |-> "None", sent |-> "None", before |-> [m \in RouterModels |-> NoInstance]]

\* router.has[p]: the worker holds an LLMRouter; router.llm_instances[p]: its
\* cache (self.llm_instances); router.built[m]: adapters constructed for m so far
NoRouter == [has |-> [p \in Procs |-> FALSE],
             llm_instances |-> [p \in Procs |-> [m \in RouterModels |-> NoInstance]],
             built |-> [m \in RouterModels |-> 0],
             last |-> [p \in Procs |-> NoLast]]

\* Canonical history entries and provider wire messages.  The arguments of a
\* function call are a JSON text ("str") or an already decoded dict; two
\* arguments are semantically equal when their value is the same.
NoArguments == [form |-> "None", value |-> "None"]
Arguments == [form : {"str", "dict"}, value : {"location NYC"}]
CallIds == {"call_123", "call_456"}

\* a canonical function_call as parse_response returns it; keys: the keys of
\* the dict ("None" under call_id: no such key, or no id)
NoFunctionCall == [keys |-> {}, name |-> "None", arguments |-> NoArguments, call_id |-> "None"]

\* conversation_history entries: function_call and function_call_output entries
\* with and without a role field, and plain user / assistant / system turns
HistoryEntries ==
  {[type |-> "function_call", role |-> r, name |-> "get_weather", arguments |-> a, call_id |-> c] :
      r \in {"None", "assistant"}, a \in Arguments, c \in CallIds}
  \cup {[type |-> "function_call_output", role |-> r, name |-> "get_weather",
         arguments |-> NoArguments, call_id |-> c] : r \in {"None", "tool"}, c \in CallIds}
  \cup {[type |-> "None", role |-> r, name |-> "None", arguments |-> NoArguments, call_id |-> "None"] :
         r \in {"user", "assistant", "system"}}

\* one translation looked at on its own: the adapter, the history, the wire
\* messages process_conversation_history produced (raised: it raised instead)
\* and the function_call parsed back from the provider's matching response
NoWire == [stage |-> "unused", provider |-> "", history |-> <<>>, raised |-> FALSE,
           messages |-> <<>>, parsed |-> NoFunctionCall]

\* no step of llm_response under observation
NoStep == [stage |-> "unused"]

\* the balance get_balance reports for the account as it is stored now
Bal(u) == IF credits[u].exists THEN credits[u].balance ELSE free_credits

\* a worker holds a request from the moment it accepts it until it has sent the
\* response and dropped the handler's locals
InFlight(q) == pc[q] # "idle"

Init ==
  /\ credits = [u \in Users |-> NoDoc]
  /\ transactions = EmptyBag
  /\ pc = [p \in Procs |-> "idle"]
  /\ req = [p \in Procs |-> NoReq]
  /\ loc = [p \in Procs |-> NoLoc]
  /\ out = [p \in Procs |-> NoOut]
  /\ hist = [p \in Procs |-> NoHist]
  /\ initCount = [u \in Users |-> 0]
  /\ started = 0
  /\ adapter = NoAdapter
  /\ router = NoRouter
  /\ wire = NoWire
  /\ step = NoStep

\* history bookkeeping when worker p accepts a request of user u
HistAtStart(p, u) ==
  [q \in Procs |->
     IF q = p
       THEN IF \A r \in Procs \ {p} : ~(InFlight(r) /\ req[r].user = u)
              THEN [NoHist EXCEPT !.pre = Bal(u), !.existed = credits[u].exists]
              ELSE [NoHist EXCEPT !.alone = FALSE]
     ELSE IF InFlight(q) /\ req[q].user = u
       THEN [hist[q] EXCEPT !.alone = FALSE, !.pre = 0, !.existed = FALSE]
     ELSE hist[q]]

\* jsonify(...) of the handlers
JsonCredit(balance) ==
  [status |-> 200, keys |-> {"lexi_credit"}, message |-> <<>>, function_call |-> "None", balance |-> balance]
JsonChat(message, function_call, credit_remaining) ==
  [status |-> 200, keys |-> {"llm_response", "function_call", "credit_remaining"},
   message |-> message, function_call |-> function_call, balance |-> credit_remaining]
JsonLlmError(credit_remaining) ==
  [status |-> 500, keys |-> {"error", "credit_remaining"}, message |-> <<"LLM", "processing", "error:">>,
   function_call |-> "None", balance |-> credit_remaining]
JsonBadRequest ==
  [status |-> 400, keys |-> {"error"}, message |-> <<"Missing", "or", "invalid", "parameter">>,
   function_call |-> "None", balance |-> 0]
JsonRecharged(new_balance) ==
  [status |-> 200, keys |-> {"status", "new_lexi_credit"}, message |-> <<"success">>,
   function_call |-> "None", balance |-> new_balance]

-----------------------------------------------------------------------------
(* CreditService.get_balance, called from four places; loc[p].ret says which: *)
(* "credit" (get_user_credit), "check" (has_sufficient_credits), "insuff"     *)
(* (the insufficient-credit response), "except" (the except clause).          *)

\* variant of has_sufficient_credits with the comparison the wrong way round
has_sufficient_credits_reversed(balance, amount) == balance <= amount

\* has_sufficient_credits, line 33: return balance >= amount
has_sufficient_credits(balance, amount) == balance >= amount

\* variant of after_sufficiency_check that debits before the adapter is called
after_sufficiency_check_debit_first(sufficient) ==
  IF sufficient THEN "dd_get" ELSE "gb_get"

\* api.py lines 36-46: where get_llm_response goes after the sufficiency check:
\* to process_request, or to the get_balance of the insufficient-credit response
after_sufficiency_check(sufficient) ==
  IF sufficient THEN "invoke" ELSE "gb_get"

\* variant of account_missing that takes every account for a new one
account_missing_always(doc) == TRUE

\* get_balance, line 14: if not doc.exists
account_missing(doc) == ~doc.exists

\* what the caller does with the value v that get_balance returned; h is the
\* history record of p after the step that produced v
AfterGetBalance(p, v, h) ==
  CASE loc[p].ret = "credit" ->
         /\ out' = [out EXCEPT ![p] = JsonCredit(v)]
         /\ pc' = [pc EXCEPT ![p] = "done"]
         /\ hist' = [hist EXCEPT ![p] = h]
         /\ UNCHANGED loc
    [] loc[p].ret = "check" ->
         \* has_sufficient_credits: return balance >= amount
         /\ hist' = [hist EXCEPT ![p] = [h EXCEPT !.checks = @ + 1, !.short = (v < loc[p].cost)]]
         /\ LET sufficient == has_sufficient_credits(v, loc[p].cost)
            IN  /\ pc' = [pc EXCEPT ![p] = after_sufficiency_check(sufficient)]
                /\ loc' = [loc EXCEPT ![p].ret = IF sufficient THEN @ ELSE "insuff"]
         /\ UNCHANGED out
    [] loc[p].ret = "insuff" ->
         /\ out' = [out EXCEPT ![p] = JsonChat(InsufficientMessage, "None", v)]
         /\ pc' = [pc EXCEPT ![p] = "done"]
         /\ hist' = [hist EXCEPT ![p] = h]
         /\ UNCHANGED loc
    [] loc[p].ret = "except" ->
         /\ out' = [out EXCEPT ![p] = JsonLlmError(v)]
         /\ pc' = [pc EXCEPT ![p] = "done"]
         /\ hist' = [hist EXCEPT ![p] = h]
         /\ UNCHANGED loc

\* CreditService.initialize_user: document(user_id).set({...})
initialize_user(u) ==
  /\ credits' = [credits EXCEPT ![u] = [exists |-> TRUE, balance |-> free_credits, total_used |-> 0]]
  /\ initCount' = [initCount EXCEPT ![u] = @ + 1]

\* get_balance, line 12: doc = ...document(user_id).get(); lines 14, 19
GetBalanceGet(p) ==
  /\ pc[p] = "gb_get"
  /\ LET doc == credits[req[p].user]
         h == [hist[p] EXCEPT !.reads = @ + 1]
     IN  IF account_missing(doc)
           THEN /\ pc' = [pc EXCEPT ![p] = "gb_init"]
                /\ hist' = [hist EXCEPT ![p] = h]
                /\ UNCHANGED <<loc, out>>
           ELSE AfterGetBalance(p, doc.balance, h)
  /\ UNCHANGED <<credits, transactions, req, initCount, started, adapter, router, wire, step>>

\* get_balance, lines 16-17: self.initialize_user(user_id); return self.free_credits
GetBalanceInit(p) ==
  /\ pc[p] = "gb_init"
  /\ initialize_user(req[p].user)
  /\ AfterGetBalance(p, free_credits, [hist[p] EXCEPT !.inits = @ + 1])
  /\ UNCHANGED <<transactions, req, started, adapter, router, wire, step>>

-----------------------------------------------------------------------------
(* GET /api/get_user_credit *)

get_user_credit(p) ==
  /\ pc[p] = "idle"
  /\ started < MaxRequests
  /\ \E u \in Users :
       /\ req' = [req EXCEPT ![p] = [NoReq EXCEPT !.op = "credit", !.user = u]]
       /\ hist' = HistAtStart(p, u)
  /\ loc' = [loc EXCEPT ![p] = [NoLoc EXCEPT !.ret = "credit"]]
  /\ pc' = [pc EXCEPT ![p] = "gb_get"]
  /\ started' = started + 1
  /\ UNCHANGED <<credits, transactions, out, initCount, adapter, router, wire, step>>

-----------------------------------------------------------------------------
(* POST /api/get_llm_response *)

\* lines 24-33: read the JSON body, reject a missing model name or chat with
\* 400, look up the model cost; the handler then calls has_sufficient_credits
get_llm_response(p) ==
  /\ pc[p] = "idle"
  /\ started < MaxRequests
  /\ \E u \in Users, m \in RequestModels, c \in ChatInputs, q \in QueryTypes :
       /\ req' = [req EXCEPT ![p] = [NoReq EXCEPT !.op = "chat", !.user = u, !.model = m,
                                                  !.chat = c, !.qtype = q]]
       /\ hist' = HistAtStart(p, u)
       /\ IF m = "" \/ c = "missing"
            THEN /\ out' = [out EXCEPT ![p] = JsonBadRequest]
                 /\ pc' = [pc EXCEPT ![p] = "done"]
                 /\ loc' = [loc EXCEPT ![p] = NoLoc]
            ELSE /\ loc' = [loc EXCEPT ![p] = [NoLoc EXCEPT !.ret = "check", !.cost = get_model_cost(m)]]
                 /\ pc' = [pc EXCEPT ![p] = "gb_get"]
                 /\ UNCHANGED out
  /\ started' = started + 1
  /\ UNCHANGED <<credits, transactions, initCount, adapter, router, wire, step>>

\* LLMRouter.process_request raises: create_llm raised inside get_llm_instance
process_request_raises(model_name, chat) ==
  create_llm_raises(model_name)

\* the query types the specification calls billable
BillableQueryTypes == {"chat"}

\* variant of the handler that classifies the request: a request whose query
\* type is not billable is answered without a debit
ProcessRequestClassified(p) ==
  /\ pc[p] = "invoke"
  /\ IF process_request_raises(req[p].model, req[p].chat)
       THEN /\ pc' = [pc EXCEPT ![p] = "gb_get"]
            /\ loc' = [loc EXCEPT ![p].ret = "except"]
            /\ UNCHANGED <<hist, out>>
       ELSE \E fault \in RequestFaults, reply \in RequestReplies :
              LET response == llm_response(get_llm_config(req[p].model).provider, fault, reply)
              IN  /\ loc' = [loc EXCEPT ![p].resp = response]
                  /\ hist' = [hist EXCEPT ![p].invoked = @ + 1, ![p].responded = @ + 1,
                                           ![p].fault = fault]
                  /\ IF req[p].qtype \in BillableQueryTypes
                       THEN /\ pc' = [pc EXCEPT ![p] = "dd_get"]
                            /\ UNCHANGED out
                       ELSE /\ pc' = [pc EXCEPT ![p] = "done"]
                            /\ out' = [out EXCEPT ![p] = JsonChat(DictGet(response, "message", <<>>),
                                                                  DictGet(response, "function_call", "None"),
                                                                  credits[req[p].user].balance)]
  /\ UNCHANGED <<credits, transactions, req, initCount, started, adapter, router, wire, step>>

\* variant of the handler without the try block: the call is settled whether
\* process_request raised or not
ProcessRequestSettleAnyway(p) ==
  /\ pc[p] = "invoke"
  /\ IF process_request_raises(req[p].model, req[p].chat)
       THEN /\ pc' = [pc EXCEPT ![p] = "dd_get"]
            /\ UNCHANGED <<hist, loc>>
       ELSE \E fault \in RequestFaults, reply \in RequestReplies :
              LET response == llm_response(get_llm_config(req[p].model).provider, fault, reply)
              IN  /\ pc' = [pc EXCEPT ![p] = "dd_get"]
                  /\ loc' = [loc EXCEPT ![p].resp = response]
                  /\ hist' = [hist EXCEPT ![p].invoked = @ + 1, ![p].responded = @ + 1,
                                           ![p].fault = fault]
  /\ UNCHANGED <<credits, transactions, req, out, initCount, started, adapter, router, wire, step>>

\* lines 44-46 and 57-65: response = llm_router.process_request(...).  The
\* provider call blocks on the network and touches no shared state.  An
\* exception sends the handler to its except clause, which calls get_balance.
ProcessRequest(p) ==
  /\ pc[p] = "invoke"
  /\ IF process_request_raises(req[p].model, req[p].chat)
       THEN /\ pc' = [pc EXCEPT ![p] = "gb_get"]
            /\ loc' = [loc EXCEPT ![p].ret = "except"]
            /\ UNCHANGED hist
       ELSE \E fault \in RequestFaults, reply \in RequestReplies :
              LET response == llm_response(get_llm_config(req[p].model).provider, fault, reply)
              IN  IF response.raised
                    THEN /\ pc' = [pc EXCEPT ![p] = "gb_get"]
                         /\ loc' = [loc EXCEPT ![p].ret = "except"]
                         /\ hist' = [hist EXCEPT ![p].invoked = @ + 1, ![p].fault = fault]
                    ELSE /\ pc' = [pc EXCEPT ![p] = "dd_get"]
                         /\ loc' = [loc EXCEPT ![p].resp = response]
                         /\ hist' = [hist EXCEPT ![p].invoked = @ + 1, ![p].responded = @ + 1,
                                                  ![p].fault = fault]
  /\ UNCHANGED <<credits, transactions, req, out, initCount, started, adapter, router, wire, step>>

-----------------------------------------------------------------------------
(* CreditService.deduct_credits(user_id, amount = model_cost, model_name) *)

\* variant of debit_new_balance with the wrong sign
debit_new_balance_added(current_data, amount) == current_data.balance + amount

\* line 46: new_balance = current_data['balance'] - amount
debit_new_balance(current_data, amount) == current_data.balance - amount

\* line 50: current_data.get('total_used', 0) + amount
debit_total_used(current_data, amount) == current_data.total_used + amount

\* lines 55-61: the usage transaction document
usage_transaction(user_id, model_name, amount, new_balance) ==
  [user_id |-> user_id, kind |-> "credits_used", model |-> model_name,
   amount |-> amount, balance_after |-> new_balance]

\* lines 38-41, 45: credit_doc = credit_ref.get()
DeductGet(p) ==
  /\ pc[p] = "dd_get"
  /\ LET doc == credits[req[p].user]
     IN  IF doc.exists
           THEN /\ loc' = [loc EXCEPT ![p].cur = doc]
                /\ pc' = [pc EXCEPT ![p] = "dd_update"]
           ELSE /\ pc' = [pc EXCEPT ![p] = "dd_init"]
                /\ UNCHANGED loc
  /\ hist' = [hist EXCEPT ![p].reads = @ + 1]
  /\ UNCHANGED <<credits, transactions, req, out, initCount, started, adapter, router, wire, step>>

\* line 42: self.initialize_user(user_id)
DeductInit(p) ==
  /\ pc[p] = "dd_init"
  /\ initialize_user(req[p].user)
  /\ pc' = [pc EXCEPT ![p] = "dd_reget"]
  /\ hist' = [hist EXCEPT ![p].inits = @ + 1]
  /\ UNCHANGED <<transactions, req, loc, out, started, adapter, router, wire, step>>

\* lines 43, 45: credit_doc = credit_ref.get() after the initialization
DeductReget(p) ==
  /\ pc[p] = "dd_reget"
  /\ credits[req[p].user].exists
  /\ loc' = [loc EXCEPT ![p].cur = credits[req[p].user]]
  /\ pc' = [pc EXCEPT ![p] = "dd_update"]
  /\ hist' = [hist EXCEPT ![p].reads = @ + 1]
  /\ UNCHANGED <<credits, transactions, req, out, initCount, started, adapter, router, wire, step>>

\* lines 46-52: credit_ref.update({'balance': ..., 'total_used': ...})
DeductUpdate(p) ==
  /\ pc[p] = "dd_update"
  /\ LET u == req[p].user
         new_balance == debit_new_balance(loc[p].cur, loc[p].cost)
     IN  /\ credits[u].exists
         /\ credits' = [credits EXCEPT ![u].balance = new_balance,
                                       ![u].total_used = debit_total_used(loc[p].cur, loc[p].cost)]
         /\ loc' = [loc EXCEPT ![p].new_balance = new_balance]
  /\ pc' = [pc EXCEPT ![p] = "dd_add"]
  /\ hist' = [hist EXCEPT ![p].debits = @ + 1]
  /\ UNCHANGED <<transactions, req, out, initCount, started, adapter, router, wire, step>>

\* lines 55-63 and api.py lines 51-55: collection('transactions').add({...}),
\* return new_balance, and the handler's jsonify of the response
DeductAdd(p) ==
  /\ pc[p] = "dd_add"
  /\ transactions' = transactions (+) SetToBag({usage_transaction(req[p].user, req[p].model,
                                                                  loc[p].cost, loc[p].new_balance)})
  /\ out' = [out EXCEPT ![p] = JsonChat(DictGet(loc[p].resp, "message", <<>>),
                                        DictGet(loc[p].resp, "function_call", "None"),
                                        loc[p].new_balance)]
  /\ pc' = [pc EXCEPT ![p] = "done"]
  /\ hist' = [hist EXCEPT ![p].usage = @ + 1]
  /\ UNCHANGED <<credits, req, loc, initCount, started, adapter, router, wire, step>>

-----------------------------------------------------------------------------
(* POST /api/recharge_user_credit and CreditService.add_credits *)

\* api.py lines 69-80: a missing amount or one float() rejects ends with 400;
\* any number float() accepts is handed to add_credits
recharge_user_credit(p) ==
  /\ pc[p] = "idle"
  /\ started < MaxRequests
  /\ \E u \in Users, a \in AmountInputs :
       /\ req' = [req EXCEPT ![p] = [NoReq EXCEPT !.op = "recharge", !.user = u, !.amount = a.value]]
       /\ hist' = HistAtStart(p, u)
       /\ IF a.kind # "number"
            THEN /\ out' = [out EXCEPT ![p] = JsonBadRequest]
                 /\ pc' = [pc EXCEPT ![p] = "done"]
            ELSE /\ pc' = [pc EXCEPT ![p] = "ac_get"]
                 /\ UNCHANGED out
  /\ loc' = [loc EXCEPT ![p] = NoLoc]
  /\ started' = started + 1
  /\ UNCHANGED <<credits, transactions, initCount, adapter, router, wire, step>>

\* credit_service.py line 75: new_balance = current_balance + amount
credit_new_balance(current_data, amount) == current_data.balance + amount

\* lines 83-89: the recharge transaction document
recharge_transaction(user_id, amount, new_balance) ==
  [user_id |-> user_id, kind |-> "credits_added", model |-> "",
   amount |-> amount, balance_after |-> new_balance]

\* lines 67-70, 74: credit_doc = credit_ref.get()
AddGet(p) ==
  /\ pc[p] = "ac_get"
  /\ LET doc == credits[req[p].user]
     IN  IF doc.exists
           THEN /\ loc' = [loc EXCEPT ![p].cur = doc]
                /\ pc' = [pc EXCEPT ![p] = "ac_update"]
           ELSE /\ pc' = [pc EXCEPT ![p] = "ac_init"]
                /\ UNCHANGED loc
  /\ hist' = [hist EXCEPT ![p].reads = @ + 1]
  /\ UNCHANGED <<credits, transactions, req, out, initCount, started, adapter, router, wire, step>>

\* line 71: self.initialize_user(user_id)
AddInit(p) ==
  /\ pc[p] = "ac_init"
  /\ initialize_user(req[p].user)
  /\ pc' = [pc EXCEPT ![p] = "ac_reget"]
  /\ hist' = [hist EXCEPT ![p].inits = @ + 1]
  /\ UNCHANGED <<transactions, req, loc, out, started, adapter, router, wire, step>>

\* lines 72, 74: credit_doc = credit_ref.get() after the initialization
AddReget(p) ==
  /\ pc[p] = "ac_reget"
  /\ credits[req[p].user].exists
  /\ loc' = [loc EXCEPT ![p].cur = credits[req[p].user]]
  /\ pc' = [pc EXCEPT ![p] = "ac_update"]
  /\ hist' = [hist EXCEPT ![p].reads = @ + 1]
  /\ UNCHANGED <<credits, transactions, req, out, initCount, started, adapter, router, wire, step>>

\* lines 75-80: credit_ref.update({'balance': new_balance, ...})
AddUpdate(p) ==
  /\ pc[p] = "ac_update"
  /\ LET u == req[p].user
         new_balance == credit_new_balance(loc[p].cur, req[p].amount)
     IN  /\ credits[u].exists
         /\ credits' = [credits EXCEPT ![u].balance = new_balance]
         /\ loc' = [loc EXCEPT ![p].new_balance = new_balance]
  /\ pc' = [pc EXCEPT ![p] = "ac_add"]
  /\ hist' = [hist EXCEPT ![p].credited = @ + 1]
  /\ UNCHANGED <<transactions, req, out, initCount, started, adapter, router, wire, step>>

\* lines 83-91 and api.py line 85: collection('transactions').add({...}),
\* return new_balance, jsonify
AddAdd(p) ==
  /\ pc[p] = "ac_add"
  /\ transactions' = transactions (+) SetToBag({recharge_transaction(req[p].user, req[p].amount,
                                                                     loc[p].new_balance)})
  /\ out' = [out EXCEPT ![p] = JsonRecharged(loc[p].new_balance)]
  /\ pc' = [pc EXCEPT ![p] = "done"]
  /\ hist' = [hist EXCEPT ![p].recharge = @ + 1]
  /\ UNCHANGED <<credits, req, loc, initCount, started, adapter, router, wire, step>>

-----------------------------------------------------------------------------
(* The worker has sent its response and is free for the next request: the    *)
(* handler's locals (CreditService(), LLMRouter(), the request) are dropped. *)

Finish(p) ==
  /\ pc[p] = "done"
  /\ pc' = [pc EXCEPT ![p] = "idle"]
  /\ req' = [req EXCEPT ![p] = NoReq]
  /\ loc' = [loc EXCEPT ![p] = NoLoc]
  /\ out' = [out EXCEPT ![p] = NoOut]
  /\ hist' = [hist EXCEPT ![p] = NoHist]
  /\ UNCHANGED <<credits, transactions, initCount, started, adapter, router, wire, step>>

\* The HTTP service.  has_sufficient_credits has created the account before
\* deduct_credits runs, so the branch of deduct_credits that initializes a
\* missing account (DeductInit, DeductReget) is taken only when the ledger is
\* called directly (NextDebit below).
Next ==
  \E p \in Procs :
    \/ get_user_credit(p)
    \/ get_llm_response(p)
    \/ recharge_user_credit(p)
    \/ GetBalanceGet(p)
    \/ GetBalanceInit(p)
    \/ ProcessRequest(p)
    \/ DeductGet(p)
    \/ DeductUpdate(p)
    \/ DeductAdd(p)
    \/ AddGet(p)
    \/ AddInit(p)
    \/ AddReget(p)
    \/ AddUpdate(p)
    \/ AddAdd(p)
    \/ Finish(p)

Spec == Init /\ [][Next]_vars

-----------------------------------------------------------------------------
(* The ledger called directly: two concurrent deduct_credits(user, N, model)  *)
(* against one account and nothing else running.  The account either exists   *)
(* with a balance B >= 2N or does not exist yet (deduct_credits then creates  *)
(* it with the free credits).  hist[p].pre holds the balance before the two   *)
(* debits.                                                                    *)

\* largest amount debited and largest starting balance of the scenario
MaxAmount == 2
MaxBalance == 6

DebitUser == CHOOSE u \in Users : TRUE

InitDebit ==
  \E N \in 1..MaxAmount :
    \E doc \in {NoDoc} \cup {[exists |-> TRUE, balance |-> B, total_used |-> 0] : B \in (2 * N)..MaxBalance} :
      /\ 2 * N <= free_credits
      /\ credits = [u \in Users |-> doc]
      /\ transactions = EmptyBag
      /\ pc = [p \in Procs |-> "dd_get"]
      /\ req = [p \in Procs |-> [NoReq EXCEPT !.op = "deduct", !.user = DebitUser, !.model = "llmdeepseek"]]
      /\ loc = [p \in Procs |-> [NoLoc EXCEPT !.cost = N]]
      /\ out = [p \in Procs |-> NoOut]
      /\ hist = [p \in Procs |->
                   [NoHist EXCEPT !.alone = FALSE, !.existed = doc.exists,
                                  !.pre = IF doc.exists THEN doc.balance ELSE free_credits]]
      /\ initCount = [u \in Users |-> 0]
      /\ started = 0
      /\ adapter = NoAdapter
      /\ router = NoRouter
      /\ wire = NoWire
      /\ step = NoStep

NextDebit ==
  \E p \in Procs :
    \/ DeductGet(p)
    \/ DeductInit(p)
    \/ DeductReget(p)
    \/ DeductUpdate(p)
    \/ DeductAdd(p)

SpecDebit == InitDebit /\ [][NextDebit]_vars

-----------------------------------------------------------------------------
(* One llm_response call of one adapter looked at on its own: the provider,   *)
(* the place where an exception is raised (if any) and the provider's reply   *)
(* are drawn from all their values.                                           *)

InitAdapter ==
  /\ credits = [u \in Users |-> NoDoc]
  /\ transactions = EmptyBag
  /\ pc = [p \in Procs |-> "idle"]
  /\ req = [p \in Procs |-> NoReq]
  /\ loc = [p \in Procs |-> NoLoc]
  /\ out = [p \in Procs |-> NoOut]
  /\ hist = [p \in Procs |-> NoHist]
  /\ initCount = [u \in Users |-> 0]
  /\ started = 0
  /\ router = NoRouter
  /\ wire = NoWire
  /\ step = NoStep
  /\ \E provider \in KnownProviders, fault \in Faults, reply \in Replies :
       adapter = [NoAdapter EXCEPT !.stage = "called", !.provider = provider,
                                   !.fault = fault, !.reply = reply]

AdapterRespond ==
  /\ adapter.stage = "called"
  /\ adapter' = [adapter EXCEPT !.stage = "returned",
                                !.result = llm_response(adapter.provider, adapter.fault, adapter.reply)]
  /\ UNCHANGED <<credits, transactions, pc, req, loc, out, hist, initCount, started, router, wire, step>>

NextAdapter == AdapterRespond

SpecAdapter == InitAdapter /\ [][NextAdapter]_vars

-----------------------------------------------------------------------------
(* Properties *)

\* number of usage / recharge transactions stored for user u
UsageCount(u) ==
  LET S == {t \in BagToSet(transactions) : t.kind = "credits_used" /\ t.user_id = u}
  IN  BagCardinality([t \in S |-> transactions[t]])

IsChat(p) == req[p].op = "chat"

\* C1 (as claimed): debit atomicity.  When two concurrent deduct_credits(user, N,
\* model) against an account with balance B >= 2N have both returned, the stored
\* balance is B - 2N and exactly two usage transactions exist.
C1_DebitAtomicity ==
  (\A p \in Procs : pc[p] = "done") =>
     \A p \in Procs :
       /\ credits[req[p].user].balance = hist[p].pre - Cardinality(Procs) * loc[p].cost
       /\ UsageCount(req[p].user) = Cardinality(Procs)

\* C2: insufficient credit.  A chat call whose sufficiency check saw a balance
\* below the model cost never invokes the adapter, never debits and appends no
\* transaction; it returns the fixed insufficiency message with function_call
\* null, and, no other request of the user being served during the call, its
\* credit_remaining and the stored balance equal the balance before the call.
C2_InsufficientCredit ==
  \A p \in Procs :
    (IsChat(p) /\ hist[p].short) =>
      /\ pc[p] \in {"gb_get", "gb_init", "done"}
      /\ hist[p].invoked = 0 /\ hist[p].responded = 0
      /\ hist[p].debits = 0 /\ hist[p].usage = 0 /\ hist[p].recharge = 0
      /\ pc[p] = "done" =>
           /\ out[p] = JsonChat(InsufficientMessage, "None", out[p].balance)
           /\ hist[p].alone =>
                /\ out[p].balance = hist[p].pre
                /\ Bal(req[p].user) = hist[p].pre

\* C2 witness: a call that ran alone was answered with the insufficiency message
C2_Witness ==
  \E p \in Procs :
    /\ IsChat(p) /\ hist[p].short /\ hist[p].alone /\ pc[p] = "done"
    /\ out[p].message = InsufficientMessage
    /\ out[p].balance < loc[p].cost

UnknownModel(p) == IsChat(p) /\ req[p].model # "" /\ req[p].model \notin ConfiguredModels

C5_DebitAfterResponse ==
  \A p \in Procs :
    IsChat(p) =>
      /\ hist[p].debits > 0 => hist[p].responded = 1
      /\ hist[p].debits <= 1
      /\ hist[p].usage <= hist[p].debits
      /\ hist[p].responded <= 1 /\ hist[p].invoked = hist[p].responded
      /\ (pc[p] = "done" /\ hist[p].responded = 1) => (hist[p].debits = 1 /\ hist[p].usage = 1)
      /\ (pc[p] = "done" /\ hist[p].responded = 0) => (hist[p].debits = 0 /\ hist[p].usage = 0)

\* C5 witness: a call has obtained its response and has not debited yet, while
\* another call has returned after its single debit
C5_Witness ==
  \E p, q \in Procs :
    /\ IsChat(p) /\ hist[p].responded = 1 /\ hist[p].debits = 0 /\ pc[p] = "dd_get"
    /\ IsChat(q) /\ pc[q] = "done" /\ hist[q].debits = 1 /\ hist[q].usage = 1

\* C6: settlement amount.  For a chat call of a user with balance B >= cost c of
\* the chosen model, no other request of the user being served during the call,
\* once the adapter has returned a response the returned credit_remaining and
\* the stored balance are both B - c, c being the configured cost of the model.
C6_SettlementAmount ==
  \A p \in Procs :
    (IsChat(p) /\ pc[p] = "done" /\ hist[p].alone /\ hist[p].responded = 1) =>
      LET c == get_model_cost(req[p].model)
      IN  /\ hist[p].pre >= c
          /\ out[p].status = 200
          /\ out[p].balance = hist[p].pre - c
          /\ credits[req[p].user].balance = hist[p].pre - c
          /\ c = llm_models[req[p].model].cost

\* C6 witness: a call that ran alone has been settled, with a cost above zero
C6_Witness ==
  \E p \in Procs :
    /\ IsChat(p) /\ pc[p] = "done" /\ hist[p].alone /\ hist[p].responded = 1
    /\ hist[p].fault = "none"
    /\ get_model_cost(req[p].model) > 0
    /\ hist[p].existed
    /\ out[p].balance = hist[p].pre - get_model_cost(req[p].model)

\* the word an adapter's error strings start with
ProviderLabel(provider) ==
  CASE provider = "openai"    -> "OpenAI"
    [] provider = "anthropic" -> "Claude"
    [] provider = "google"    -> "Gemini"
    [] provider = "deepseek"  -> "DeepSeek"
    [] provider = "xai"       -> "Grok"

C8_ProviderFailureConsumesCredit ==
  \A p \in Procs :
    (IsChat(p) /\ hist[p].fault # "none") =>
      /\ hist[p].responded = 1
      /\ pc[p] \in {"dd_get", "dd_update", "dd_add", "done"}
      /\ Head(loc[p].resp.message) = ProviderLabel(get_llm_config(req[p].model).provider)
      /\ pc[p] = "done" =>
           LET c == get_model_cost(req[p].model)
           IN  /\ hist[p].debits = 1 /\ hist[p].usage = 1
               /\ loc[p].new_balance = loc[p].cur.balance - c
               /\ out[p] = JsonChat(loc[p].resp.message, "None", loc[p].new_balance)
               /\ usage_transaction(req[p].user, req[p].model, c, loc[p].new_balance)
                    \in BagToSet(transactions)
               /\ hist[p].alone => credits[req[p].user].balance = hist[p].pre - c

\* C8 witness: a call whose provider call failed has returned 200 with the
\* DeepSeek error text and a balance lowered by the model cost
C8_Witness ==
  \E p \in Procs :
    /\ IsChat(p) /\ hist[p].fault = "call" /\ pc[p] = "done" /\ hist[p].alone
    /\ out[p].status = 200
    /\ out[p].message = <<"DeepSeek", "Error:", "call">>
    /\ out[p].balance = hist[p].pre - 2

\* C9 (as claimed): account creation happens exactly once.  Whatever the
\* interleaving of the requests of a user, initialize_user writes the account
\* document of the user at most once (so that no initialization overwrites a
\* balance already written).
C9_InitializedOnce ==
  \A u \in Users : initCount[u] <= 1

\* C10: first-read initialization in sequence.  A get_balance served while no
\* other request of the user is served returns the stored balance and leaves it
\* as it is; it initializes the account, with the free credits, exactly when the
\* account did not exist, and never when it existed (no reset).
C10_FirstReadInitialization ==
  \A p \in Procs :
    (req[p].op = "credit" /\ pc[p] = "done" /\ hist[p].alone) =>
      /\ out[p] = JsonCredit(hist[p].pre)
      /\ credits[req[p].user].exists
      /\ credits[req[p].user].balance = hist[p].pre
      /\ hist[p].debits = 0 /\ hist[p].credited = 0
      /\ IF hist[p].existed
           THEN hist[p].inits = 0 /\ hist[p].reads = 1
           ELSE /\ hist[p].inits = 1
                /\ hist[p].pre = free_credits
                /\ credits[req[p].user] = [exists |-> TRUE, balance |-> free_credits, total_used |-> 0]

\* C10 witness: a get_balance after a debit returned the debited balance
C10_Witness ==
  \E p \in Procs :
    /\ req[p].op = "credit" /\ pc[p] = "done" /\ hist[p].alone /\ hist[p].existed
    /\ credits[req[p].user].total_used > 0
    /\ out[p].balance # free_credits
    /\ out[p].balance = credits[req[p].user].balance

-----------------------------------------------------------------------------
(* The ledger called directly: one deduct_credits(user, N, model) and one      *)
(* add_credits(user, A) running concurrently against one account.  The ledger  *)
(* starts in a state a sequence of earlier calls has left: no account, or an   *)
(* account created with the free credits, then recharged by r and debited by   *)
(* u, with the transactions of these calls in the log.  A write to the         *)
(* 'transactions' collection may fail (the Firestore add() raises): the        *)
(* exception leaves the ledger operation after its balance update.             *)

\* the transactions of a recharge by r followed by a debit of u (0: no such call)
PriorTransactions(r, u) ==
  (IF r > 0 THEN SetToBag({recharge_transaction(DebitUser, r, free_credits + r)}) ELSE EmptyBag)
    (+) (IF u > 0 THEN SetToBag({usage_transaction(DebitUser, "llmdeepseek", u, free_credits + r - u)})
                  ELSE EmptyBag)

InitLedger ==
  \E N \in 1..MaxAmount, A \in 1..MaxAmount, r \in 0..MaxAmount, u \in 0..MaxAmount, d \in Procs :
    \E doc \in {NoDoc, [exists |-> TRUE, balance |-> free_credits + r - u, total_used |-> u]} :
      /\ credits = [v \in Users |-> doc]
      /\ transactions = IF doc.exists THEN PriorTransactions(r, u) ELSE EmptyBag
      /\ doc.exists \/ (r = 0 /\ u = 0)
      /\ pc = [p \in Procs |-> IF p = d THEN "dd_get" ELSE "ac_get"]
      /\ req = [p \in Procs |->
                  IF p = d THEN [NoReq EXCEPT !.op = "deduct", !.user = DebitUser, !.model = "llmdeepseek"]
                           ELSE [NoReq EXCEPT !.op = "add", !.user = DebitUser, !.amount = A]]
      /\ loc = [p \in Procs |-> IF p = d THEN [NoLoc EXCEPT !.cost = N] ELSE NoLoc]
      /\ out = [p \in Procs |-> NoOut]
      /\ hist = [p \in Procs |->
                   [NoHist EXCEPT !.alone = FALSE, !.existed = doc.exists,
                                  !.pre = IF doc.exists THEN doc.balance ELSE free_credits]]
      /\ initCount = [v \in Users |-> 0]
      /\ started = 0
      /\ adapter = NoAdapter
      /\ router = NoRouter
      /\ wire = NoWire
      /\ step = NoStep

\* credit_service.py lines 55 and 83: collection('transactions').add({...})
\* raises; the balance update before it stays
TransactionAddRaises(p) ==
  /\ pc[p] \in {"dd_add", "ac_add"}
  /\ pc' = [pc EXCEPT ![p] = "raised"]
  /\ UNCHANGED <<credits, transactions, req, loc, out, hist, initCount, started, adapter, router, wire, step>>

NextLedger ==
  \E p \in Procs :
    \/ DeductGet(p)
    \/ DeductInit(p)
    \/ DeductReget(p)
    \/ DeductUpdate(p)
    \/ DeductAdd(p)
    \/ AddGet(p)
    \/ AddInit(p)
    \/ AddReget(p)
    \/ AddUpdate(p)
    \/ AddAdd(p)
    \/ TransactionAddRaises(p)

SpecLedger == InitLedger /\ [][NextLedger]_vars

\* sum of the amounts of the transactions of the given kind stored for user u
RECURSIVE SumOver(_, _)
SumOver(S, B) ==
  IF S = {} THEN 0
  ELSE LET t == CHOOSE x \in S : TRUE
       IN  t.amount * B[t] + SumOver(S \ {t}, B)

AmountSum(u, kind) ==
  SumOver({t \in BagToSet(transactions) : t.kind = kind /\ t.user_id = u}, transactions)

\* C11 (as claimed): credit atomicity.  When an add_credits(user, A) and a
\* deduct_credits(user, N, model) that ran concurrently against an existing
\* account with balance B have both returned, the stored balance is B + A - N
\* and each has appended its transaction.
C11_CreditAtomicity ==
  (\A p \in Procs : pc[p] = "done") =>
    \A p, q \in Procs :
      (req[p].op = "add" /\ req[q].op = "deduct" /\ hist[p].existed) =>
        /\ credits[req[p].user].balance = hist[p].pre + req[p].amount - loc[q].cost
        /\ recharge_transaction(req[p].user, req[p].amount, loc[p].new_balance)
             \in BagToSet(transactions)
        /\ usage_transaction(req[q].user, req[q].model, loc[q].cost, loc[q].new_balance)
             \in BagToSet(transactions)

\* C12 (as claimed): ledger audit invariant.  Whenever no ledger operation stands
\* between its balance update and its transaction append (also after an append
\* that failed), the stored balance of an account is the free starting balance
\* plus the amounts of its recharge transactions minus the amounts of its usage
\* transactions.
C12_LedgerAudit ==
  (\A p \in Procs : pc[p] \notin {"dd_add", "ac_add"}) =>
    \A u \in Users :
      credits[u].exists =>
        credits[u].balance = free_credits + AmountSum(u, "credits_added") - AmountSum(u, "credits_used")

\* C13 (as claimed): a usage transaction records the resulting balance and
\* total_used follows the usage transactions.  When two concurrent debits have
\* both returned, each has appended the transaction recording the balance it
\* wrote, and total_used is the sum of the amounts of the usage transactions.
C13_TotalUsedMatchesUsage ==
  (\A p \in Procs : pc[p] = "done") =>
    \A p \in Procs :
      /\ usage_transaction(req[p].user, req[p].model, loc[p].cost, loc[p].new_balance)
           \in BagToSet(transactions)
      /\ loc[p].new_balance = loc[p].cur.balance - loc[p].cost
      /\ credits[req[p].user].total_used = AmountSum(req[p].user, "credits_used")

-----------------------------------------------------------------------------
(* The router (services/llm_router.py) as an object: LLMRouter() builds it    *)
(* with an empty cache, get_model_cost and process_request are its            *)
(* operations.  get_llm_response builds a router of its own for every request *)
(* (api.py line 33), so each worker holds its own router and a new request    *)
(* replaces it.  A router is used by its worker alone: its operations run one *)
(* after the other.                                                           *)

\* BaseLLM.get_cost: return self.cost
get_cost(llm) == llm.cost

\* BaseLLM.__init__ (lines 12-30) through create_llm: the adapter object built
\* for a model name whose construction does not raise
create_llm(model_name) ==
  [exists |-> TRUE, provider |-> get_llm_config(model_name).provider,
   cost |-> get_llm_config(model_name).cost, instruction |-> "None"]

\* BaseLLM.llm_set_instruction, called by process_request when the request
\* carries an instruction (llm_router.py lines 22-24)
llm_set_instruction(llm, instruction) ==
  IF instruction # "None" THEN [llm EXCEPT !.instruction = instruction] ELSE llm

\* the adapter object after llm_response: LlmGemini.llm_response, lines 48-49
\* (if instruction: self.instruction = instruction); the other adapters do not
\* write to self
after_llm_response(llm, instruction) ==
  IF llm.provider = "google" /\ instruction # "None"
    THEN [llm EXCEPT !.instruction = instruction]
    ELSE llm

\* the system instruction the provider receives: LlmGemini passes
\* system_instruction = self.instruction (line 71), the other adapters the
\* instruction of complete_chat
system_instruction_sent(llm, instruction) ==
  IF llm.provider = "google" THEN after_llm_response(llm, instruction).instruction
  ELSE instruction

\* number of operations on routers (constructions included) in one behaviour
MaxCalls == 4

\* api.py line 33: llm_router = LLMRouter(); __init__: self.llm_instances = {}
NewRouter(p) ==
  /\ started < MaxCalls
  /\ started' = started + 1
  /\ router' = [router EXCEPT !.has[p] = TRUE,
                              !.llm_instances[p] = [m \in RouterModels |-> NoInstance],
                              !.last[p] = NoLast]
  /\ UNCHANGED <<credits, transactions, pc, req, loc, out, hist, initCount, adapter, wire, step>>

\* variant of get_model_cost that asks the adapter: get_llm_instance(m).get_cost()
RouterGetModelCostViaInstance(p, m) ==
  /\ router.has[p]
  /\ started < MaxCalls
  /\ started' = started + 1
  /\ LET cached == router.llm_instances[p][m]
         build == ~cached.exists
         llm == IF build THEN create_llm(m) ELSE cached
     IN  IF build /\ create_llm_raises(m)
           THEN router' = [router EXCEPT !.last[p] =
                             [NoLast EXCEPT !.op = "cost", !.model = m, !.raised = TRUE,
                                            !.before = router.llm_instances[p]]]
           ELSE router' = [router EXCEPT
                             !.llm_instances[p][m] = llm,
                             !.built[m] = IF build THEN @ + 1 ELSE @,
                             !.last[p] = [NoLast EXCEPT !.op = "cost", !.model = m,
                                                        !.value = get_cost(llm),
                                                        !.constructed = IF build THEN 1 ELSE 0,
                                                        !.before = router.llm_instances[p]]]
  /\ UNCHANGED <<credits, transactions, pc, req, loc, out, hist, initCount, adapter, wire, step>>

\* LLMRouter.get_model_cost(model_name), lines 29-32
RouterGetModelCost(p, m) ==
  /\ router.has[p]
  /\ started < MaxCalls
  /\ started' = started + 1
  /\ router' = [router EXCEPT !.last[p] =
                  [NoLast EXCEPT !.op = "cost", !.model = m, !.value = get_model_cost(m),
                                 !.before = router.llm_instances[p]]]
  /\ UNCHANGED <<credits, transactions, pc, req, loc, out, hist, initCount, adapter, wire, step>>

\* LLMRouter.process_request(model_name, complete_chat), lines 17-27, with
\* get_llm_instance (lines 11-15): the adapter is built when the cache has none
\* for the name (create_llm may raise, leaving the cache as it was), the
\* instruction of the request is stored on it, and llm_response is called
RouterProcessRequest(p, m, instruction) ==
  /\ router.has[p]
  /\ started < MaxCalls
  /\ started' = started + 1
  /\ LET cached == router.llm_instances[p][m]
         build == ~cached.exists
         llm == llm_set_instruction(IF build THEN create_llm(m) ELSE cached, instruction)
     IN  IF build /\ create_llm_raises(m)
           THEN router' = [router EXCEPT !.last[p] =
                             [NoLast EXCEPT !.op = "process", !.model = m, !.raised = TRUE,
                                            !.own = instruction,
                                            !.before = router.llm_instances[p]]]
           ELSE router' = [router EXCEPT
                             !.llm_instances[p][m] = after_llm_response(llm, instruction),
                             !.built[m] = IF build THEN @ + 1 ELSE @,
                             !.last[p] = [NoLast EXCEPT !.op = "process", !.model = m,
                                                        !.own = instruction,
                                                        !.sent = system_instruction_sent(llm, instruction),
                                                        !.constructed = IF build THEN 1 ELSE 0,
                                                        !.before = router.llm_instances[p]]]
  /\ UNCHANGED <<credits, transactions, pc, req, loc, out, hist, initCount, adapter, wire, step>>

NextRouter ==
  \E p \in Procs :
    \/ NewRouter(p)
    \/ \E m \in RouterModels : RouterGetModelCost(p, m)
    \/ \E m \in RouterModels, instruction \in Instructions : RouterProcessRequest(p, m, instruction)

SpecRouter == Init /\ [][NextRouter]_vars

\* C14 (as claimed): adapter caching.  Across the chat calls of all requests the
\* adapter for a model name is constructed at most once.
C14_AdapterConstructedOnce ==
  \A m \in RouterModels : router.built[m] <= 1

\* C15: cost lookup has no construction effect.  get_model_cost(model_name)
\* constructs no adapter, does not raise and leaves the router's cache as it
\* was, whatever the name and the cache; its result is the cost configured for
\* the model (0 for a name without config entry) and equals get_cost() of the
\* adapter built for the name, cached or newly constructed.
C15_CostLookupNoConstruction ==
  \A p \in Procs :
    router.last[p].op = "cost" =>
      LET l == router.last[p]
          m == l.model
      IN  /\ ~l.raised /\ l.constructed = 0
          /\ router.llm_instances[p] = l.before
          /\ l.value = IF m \in ConfiguredModels THEN llm_models[m].cost ELSE 0
          /\ router.llm_instances[p][m].exists => l.value = get_cost(router.llm_instances[p][m])
          /\ ~create_llm_raises(m) => l.value = get_cost(create_llm(m))

\* C15 witness: the cost of a model was looked up on a router whose cache holds
\* an adapter of another model and none of this one
C15_Witness ==
  \E p \in Procs :
    /\ router.last[p].op = "cost" /\ router.last[p].model = "llmdeepseek"
    /\ router.last[p].value = 2
    /\ router.llm_instances[p]["llmgemini"].exists
    /\ ~router.llm_instances[p]["llmdeepseek"].exists

\* C16 (as claimed): no instruction leak through a cached adapter.  The system
\* instruction sent to the provider by a call is the instruction of the call's
\* own request (none when the request carries none), whatever calls the adapter
\* instance served before.
C16_NoInstructionLeak ==
  \A p \in Procs :
    (router.last[p].op = "process" /\ ~router.last[p].raised) =>
      router.last[p].sent = router.last[p].own

\* C17 (as claimed): recharge validation.  A recharge call whose amount is a
\* negative number is rejected like a missing or unparseable one: it ends with
\* status 400 without reading or writing the ledger.
C17_RechargeValidation ==
  \A p \in Procs :
    (req[p].op = "recharge" /\ req[p].amount < 0) =>
      /\ pc[p] = "done" /\ out[p].status = 400
      /\ hist[p].reads = 0 /\ hist[p].inits = 0
      /\ hist[p].credited = 0 /\ hist[p].recharge = 0

\* C18 (as claimed): the canonical response is never empty.  Whatever the
\* adapter and the provider's answer, the parsed result carries a message or a
\* function_call; when the provider returned neither text nor a tool
\* invocation the result carries a message (the placeholder).
C18_ResponseNeverEmpty ==
  (adapter.stage = "returned" /\ adapter.fault = "none") =>
    /\ adapter.result.keys \cap {"message", "function_call"} # {}
    /\ (adapter.reply.text = <<>> /\ adapter.reply.call = "None") => "message" \in adapter.result.keys

-----------------------------------------------------------------------------
(* Translation of a conversation history into provider messages               *)
(* (process_conversation_history of each adapter) and the way back            *)
(* (parse_response on the provider's tool invocation).  A wire message is      *)
(* kind "tool_invocation" (tool_calls / tool_use / function_call part),        *)
(* "tool_result" (role tool / tool_result / function_response part), "text"    *)
(* (a plain turn) or "raw" (the history entry passed through unchanged).       *)

\* longest history translated
MaxHistory == 2

\* json.loads(x): raises TypeError when x is not a text
json_loads_raises(a) == a.form # "str"
json_loads(a) == [a EXCEPT !.form = "dict"]

WireMessage(kind, role, e, arguments, call_id) ==
  [kind |-> kind, role |-> role, name |-> e.name, arguments |-> arguments, call_id |-> call_id]

\* what one entry contributes: the messages appended, or an exception
Appended(messages) == [raised |-> FALSE, messages |-> messages]
Raises == [raised |-> TRUE, messages |-> <<>>]

\* LlmOpenAi.process_conversation_history, loop body: msg_type is looked at first
OpenAiEntry(e) ==
  IF e.type = "function_call"
    THEN Appended(<<WireMessage("tool_invocation", "assistant", e, e.arguments, e.call_id)>>)
  ELSE IF e.type = "function_call_output"
    THEN Appended(<<WireMessage("tool_result", "tool", e, NoArguments, e.call_id)>>)
  ELSE IF e.role \in {"user", "assistant"}
    THEN Appended(<<WireMessage("text", e.role, e, NoArguments, "None")>>)
  ELSE Appended(<<>>)

\* LlmAnthropic.process_conversation_history, loop body: role is looked at first;
\* "input": json.loads(msg.get("arguments", "{}"))
AnthropicEntry(e) ==
  IF e.role \in {"user", "assistant"}
    THEN Appended(<<WireMessage("text", e.role, e, NoArguments, "None")>>)
  ELSE IF e.type = "function_call"
    THEN IF json_loads_raises(e.arguments) THEN Raises
         ELSE Appended(<<WireMessage("tool_invocation", "assistant", e, json_loads(e.arguments), e.call_id)>>)
  ELSE IF e.type = "function_call_output"
    THEN Appended(<<WireMessage("tool_result", "user", e, NoArguments, e.call_id)>>)
  ELSE Appended(<<>>)

\* LlmDeepSeek.process_conversation_history, loop body: an entry with a role is
\* appended as it is
DeepSeekEntry(e) ==
  IF e.role \in {"user", "assistant", "system", "tool"}
    THEN Appended(<<WireMessage("raw", e.role, e, e.arguments, e.call_id)>>)
  ELSE IF e.type = "function_call"
    THEN Appended(<<WireMessage("tool_invocation", "assistant", e, e.arguments, e.call_id)>>)
  ELSE IF e.type = "function_call_output"
    THEN Appended(<<WireMessage("tool_result", "tool", e, NoArguments, e.call_id)>>)
  ELSE Appended(<<>>)

\* LlmGrok.process_conversation_history, loop body
GrokEntry(e) ==
  IF e.role \in {"user", "assistant"}
    THEN Appended(<<WireMessage("text", e.role, e, NoArguments, "None")>>)
  ELSE IF e.type = "function_call"
    THEN Appended(<<WireMessage("tool_invocation", "assistant", e, e.arguments, e.call_id)>>)
  ELSE IF e.type = "function_call_output"
    THEN Appended(<<WireMessage("tool_result", "tool", e, NoArguments, e.call_id)>>)
  ELSE Appended(<<>>)

\* LlmGemini._process_history_for_sdk, loop body: an entry whose role is not
\* user / model / function is skipped; the parts carry no call id
GeminiEntry(e) ==
  LET role == IF e.role = "assistant" THEN "model" ELSE e.role
  IN  IF role \notin {"user", "model", "function"} THEN Appended(<<>>)
      ELSE IF e.type = "function_call"
        THEN Appended(<<WireMessage("tool_invocation", "model", e, json_loads(e.arguments), "None")>>)
      ELSE IF e.type = "function_call_output"
        THEN Appended(<<WireMessage("tool_result", "function", e, NoArguments, "None")>>)
      ELSE Appended(<<WireMessage("text", role, e, NoArguments, "None")>>)

\* the loop body of the adapter built for provider
HistoryEntry(provider, e) ==
  CASE provider = "openai"    -> OpenAiEntry(e)
    [] provider = "anthropic" -> AnthropicEntry(e)
    [] provider = "google"    -> GeminiEntry(e)
    [] provider = "deepseek"  -> DeepSeekEntry(e)
    [] provider = "xai"       -> GrokEntry(e)

\* process_conversation_history: for msg in messages: ... processed.append(...);
\* an exception of the loop body leaves the function
RECURSIVE process_conversation_history(_, _)
process_conversation_history(provider, messages) ==
  IF messages = <<>> THEN Appended(<<>>)
  ELSE LET first == HistoryEntry(provider, Head(messages))
           rest == process_conversation_history(provider, Tail(messages))
       IN  IF first.raised \/ rest.raised THEN Raises
           ELSE Appended(first.messages \o rest.messages)

\* the tool invocation a provider answers with when it repeats the invocation
\* of wire message m: OpenAI, DeepSeek and Grok carry the arguments as JSON
\* text and an id, Anthropic the decoded input and an id, Gemini the decoded
\* args and no id
ProviderToolCall(provider, m) ==
  [name |-> m.name,
   arguments |-> IF provider \in {"anthropic", "google"} THEN json_loads(m.arguments)
                 ELSE [m.arguments EXCEPT !.form = "str"],
   id |-> IF provider = "google" THEN "None" ELSE m.call_id]

\* parse_response, the function_call dict: OpenAI (lines 203-208), DeepSeek
\* (135-139) and Grok (147-151) decode the arguments with json.loads and copy
\* the id; Anthropic (158-162) copies input and id; Gemini (189-191) builds
\* {"name", "arguments"} without call_id
ParseFunctionCall(provider, call) ==
  IF provider = "google"
    THEN [keys |-> {"name", "arguments"}, name |-> call.name, arguments |-> call.arguments,
          call_id |-> "None"]
  ELSE IF provider = "anthropic"
    THEN [keys |-> {"name", "arguments", "call_id"}, name |-> call.name,
          arguments |-> call.arguments, call_id |-> call.id]
  ELSE [keys |-> {"name", "arguments", "call_id"}, name |-> call.name,
        arguments |-> json_loads(call.arguments), call_id |-> call.id]

Histories ==
  UNION {[1..n -> HistoryEntries] : n \in 1..MaxHistory}

InitWire ==
  /\ credits = [u \in Users |-> NoDoc]
  /\ transactions = EmptyBag
  /\ pc = [p \in Procs |-> "idle"]
  /\ req = [p \in Procs |-> NoReq]
  /\ loc = [p \in Procs |-> NoLoc]
  /\ out = [p \in Procs |-> NoOut]
  /\ hist = [p \in Procs |-> NoHist]
  /\ initCount = [u \in Users |-> 0]
  /\ started = 0
  /\ adapter = NoAdapter
  /\ router = NoRouter
  /\ step = NoStep
  /\ \E provider \in KnownProviders, history \in Histories :
       wire = [NoWire EXCEPT !.stage = "history", !.provider = provider, !.history = history]

\* llm_response: messages = self.process_conversation_history(conversation_history)
TranslateHistory ==
  /\ wire.stage = "history"
  /\ LET r == process_conversation_history(wire.provider, wire.history)
     IN  wire' = [wire EXCEPT !.stage = "translated", !.raised = r.raised, !.messages = r.messages]
  /\ UNCHANGED <<credits, transactions, pc, req, loc, out, hist, initCount, started, adapter, router, step>>

\* the provider answers with the first tool invocation it was sent and
\* parse_response turns the answer into a canonical function_call
ParseMatchingResponse ==
  /\ wire.stage = "translated"
  /\ \E i \in 1..Len(wire.messages) :
       /\ wire.messages[i].kind = "tool_invocation"
       /\ \A j \in 1..(i - 1) : wire.messages[j].kind # "tool_invocation"
       /\ wire' = [wire EXCEPT !.stage = "parsed",
                               !.parsed = ParseFunctionCall(wire.provider,
                                            ProviderToolCall(wire.provider, wire.messages[i]))]
  /\ UNCHANGED <<credits, transactions, pc, req, loc, out, hist, initCount, started, adapter, router, step>>

NextWire == TranslateHistory \/ ParseMatchingResponse

SpecWire == InitWire /\ [][NextWire]_vars

\* the tool entries of a history and the tool messages of a translation, each
\* as the sequence of its <<kind, call id>> pairs
EntryTrace(history) ==
  LET tools == SelectSeq(history, LAMBDA e : e.type # "None")
  IN  [i \in 1..Len(tools) |->
         <<IF tools[i].type = "function_call" THEN "tool_invocation" ELSE "tool_result",
           tools[i].call_id>>]

MessageTrace(messages) ==
  LET tools == SelectSeq(messages, LAMBDA m : m.kind \in {"tool_invocation", "tool_result"})
  IN  [i \in 1..Len(tools) |-> <<tools[i].kind, tools[i].call_id>>]

\* C19 (as claimed): function-call round trip.  For each adapter, a canonical
\* function_call entry (name, JSON-text arguments, call id, no role field) is
\* translated into one tool invocation, and the function_call parsed back from
\* the provider's matching response has the same name, the same call id and
\* semantically equal arguments.
C19_FunctionCallRoundTrip ==
  (/\ wire.stage \in {"translated", "parsed"}
   /\ Len(wire.history) = 1
   /\ wire.history[1].type = "function_call"
   /\ wire.history[1].role = "None"
   /\ wire.history[1].arguments.form = "str") =>
     /\ ~wire.raised
     /\ Len(wire.messages) = 1 /\ wire.messages[1].kind = "tool_invocation"
     /\ wire.stage = "parsed" =>
          /\ wire.parsed.name = wire.history[1].name
          /\ wire.parsed.call_id = wire.history[1].call_id
          /\ wire.parsed.arguments.value = wire.history[1].arguments.value

\* C20 (as claimed): history translation keeps tool entries.  For every adapter
\* and history the translation does not fail, and its tool messages are, in
\* order, one assistant/model-authored tool invocation per function_call entry
\* and one tool result per function_call_output entry, each with the call id of
\* its entry.
C20_HistoryKeepsToolEntries ==
  wire.stage \in {"translated", "parsed"} =>
    /\ ~wire.raised
    /\ MessageTrace(wire.messages) = EntryTrace(wire.history)
    /\ \A i \in 1..Len(wire.messages) :
         wire.messages[i].kind = "tool_invocation" => wire.messages[i].role \in {"assistant", "model"}

\* the roles a provider message may carry for a plain turn of the given role:
\* Gemini calls the assistant "model"; a system turn travels under the
\* provider's instruction-carrying role
ProviderRoles(provider, role) ==
  IF role = "assistant" THEN (IF provider = "google" THEN {"model"} ELSE {"assistant"})
  ELSE IF role = "system" THEN {"system", "developer"}
  ELSE {role}

\* C21 (as claimed): plain turns map role-for-role.  For every adapter, a history
\* of plain text turns (roles user, assistant, system) is translated without
\* failure into one message per turn, in order, each under the provider's name
\* for the role of its turn; no plain turn is dropped.
C21_PlainTurnsKept ==
  (/\ wire.stage \in {"translated", "parsed"}
   /\ \A i \in 1..Len(wire.history) : wire.history[i].type = "None") =>
     /\ ~wire.raised
     /\ Len(wire.messages) = Len(wire.history)
     /\ \A i \in 1..Len(wire.history) :
          /\ wire.messages[i].kind \in {"text", "raw"}
          /\ wire.messages[i].role \in ProviderRoles(wire.provider, wire.history[i].role)


\* ---------------------------------------------------------------------------
\* Tool schema: format_function_for_llm applied to one declared function
\* ---------------------------------------------------------------------------

ParamNames == {"location", "unit"}

\* what a declaration says about one parameter; "None" is a key the
\* declaration does not carry
ParamInfos ==
  [type : {"integer", "None"}, description : {"city name", "None"},
   required : {"True", "False", "None"}]

Parameters == UNION {[D -> ParamInfos] : D \in SUBSET ParamNames}

\* a declared function; "None" is a missing key, "" an empty description
Functions ==
  [name : {"get_weather", "None"},
   description : {"weather at a place", "", "None"},
   parameters : Parameters]

\* {"type": v.get("type", "string"), "description": v.get("description", "")}
PropertySchemaStringType(param_info) ==
  [type |-> "string",
   description |-> IF param_info.description = "None" THEN "" ELSE param_info.description]

PropertySchema(param_info) ==
  [type |-> IF param_info.type = "None" THEN "string" ELSE param_info.type,
   description |-> IF param_info.description = "None" THEN "" ELSE param_info.description]

\* the tool an adapter builds: the properties and the required list (kept as
\* the set of its members; the keys of a dict are distinct)
Tool(name, description, parameters) ==
  [kind |-> "tool", name |-> name, description |-> description,
   properties |-> [k \in DOMAIN parameters |-> PropertySchema(parameters[k])],
   required |-> {k \in DOMAIN parameters : parameters[k].required = "True"}]

NoTool == [kind |-> "None"]

KeyError == [kind |-> "KeyError"]

\* LlmOpenAi.format_function_for_llm: None without a name or a description
OpenAiFormatFunction(func) ==
  IF func.name \in {"None", ""} \/ func.description \in {"None", ""} THEN NoTool
  ELSE Tool(func.name, func.description, func.parameters)

\* LlmAnthropic.format_function_for_llm: func["name"], func["description"]
AnthropicFormatFunction(func) ==
  IF func.name = "None" \/ func.description = "None" THEN KeyError
  ELSE Tool(func.name, func.description, func.parameters)

\* LlmDeepSeek.format_function_for_llm
DeepSeekFormatFunction(func) ==
  IF func.name = "None" \/ func.description = "None" THEN KeyError
  ELSE Tool(func.name, func.description, func.parameters)

\* LlmGrok.format_function_for_llm
GrokFormatFunction(func) ==
  IF func.name = "None" \/ func.description = "None" THEN KeyError
  ELSE Tool(func.name, func.description, func.parameters)

\* LlmGemini._format_function_declaration: func["name"], func.get("description", "")
GeminiFormatFunctionDeclaration(func) ==
  IF func.name = "None" THEN KeyError
  ELSE Tool(func.name, IF func.description = "None" THEN "" ELSE func.description,
            func.parameters)

format_function_for_llm(provider, func) ==
  CASE provider = "openai" -> OpenAiFormatFunction(func)
    [] provider = "anthropic" -> AnthropicFormatFunction(func)
    [] provider = "deepseek" -> DeepSeekFormatFunction(func)
    [] provider = "xai" -> GrokFormatFunction(func)
    [] provider = "google" -> GeminiFormatFunctionDeclaration(func)

InitSchema ==
  /\ credits = [u \in Users |-> NoDoc]
  /\ transactions = EmptyBag
  /\ pc = [p \in Procs |-> "idle"]
  /\ req = [p \in Procs |-> NoReq]
  /\ loc = [p \in Procs |-> NoLoc]
  /\ out = [p \in Procs |-> NoOut]
  /\ hist = [p \in Procs |-> NoHist]
  /\ initCount = [u \in Users |-> 0]
  /\ started = 0
  /\ adapter = NoAdapter
  /\ router = NoRouter
  /\ wire = NoWire
  /\ \E provider \in KnownProviders, func \in Functions :
       step = [stage |-> "declared", provider |-> provider, func |-> func,
               tool |-> [kind |-> "unset"]]

\* tool = self.format_function_for_llm(func)
FormatFunction ==
  /\ step.stage = "declared"
  /\ step' = [step EXCEPT !.stage = "formatted",
                          !.tool = format_function_for_llm(step.provider, step.func)]
  /\ UNCHANGED <<credits, transactions, pc, req, loc, out, hist, initCount, started,
                 adapter, router, wire>>

NextSchema == FormatFunction

SpecSchema == InitSchema /\ [][NextSchema]_vars

\* the tool carries every declared parameter with the declared type and
\* description, and lists as required exactly the parameters marked required
CarriesParameters(func, tool) ==
  /\ tool.kind = "tool"
  /\ DOMAIN tool.properties = DOMAIN func.parameters
  /\ \A k \in DOMAIN func.parameters :
       /\ func.parameters[k].type # "None" =>
            tool.properties[k].type = func.parameters[k].type
       /\ func.parameters[k].description # "None" =>
            tool.properties[k].description = func.parameters[k].description
       /\ k \in tool.required <=> func.parameters[k].required = "True"

\* C22 (as claimed): for every adapter and every declared function, each
\* declared parameter appears in the provider schema with its declared type and
\* description unchanged, and is listed as required iff the declaration marks
\* it required.
C22_EveryFunctionTranslated ==
  (step.stage = "formatted" /\ step.func.name # "None") =>
    CarriesParameters(step.func, step.tool)

\* C22: for every adapter and every declared function that carries a name and
\* a non-empty description, each declared parameter appears in the provider
\* schema with its declared type and description unchanged, and is listed as
\* required iff the declaration marks it required.
C22_DescribedFunctionTranslated ==
  (/\ step.stage = "formatted"
   /\ step.func.name # "None"
   /\ step.func.description \notin {"None", ""}) =>
    CarriesParameters(step.func, step.tool)

C22_Witness ==
  /\ step.stage = "formatted"
  /\ step.func.name = "get_weather"
  /\ step.func.description = "weather at a place"
  /\ DOMAIN step.func.parameters = ParamNames
  /\ step.func.parameters["location"] =
       [type |-> "integer", description |-> "city name", required |-> "True"]
  /\ step.func.parameters["unit"].required = "False"
  /\ step.tool.kind = "tool"
  /\ step.tool.required = {"location"}


\* ---------------------------------------------------------------------------
\* Tool list: the tools loop of llm_response over available_functions
\* ---------------------------------------------------------------------------

MaxFunctions == 2

DeclaredNames == {"search_internet", "get_weather", "get_time"}

\* declared functions with a name and a description and no parameters
DeclaredFunctions ==
  {[name |-> n, description |-> "a callable function", parameters |-> <<>>] :
     n \in DeclaredNames}

AvailableFunctions ==
  UNION {[1..n -> DeclaredFunctions] : n \in 0..MaxFunctions}

\* the provider's own web search tool (web_search_preview, web_search_20250305)
NativeWebSearch == [kind |-> "web_search"]

NoTools == [raised |-> FALSE, tools |-> <<>>, search_parameters |-> FALSE]

FormatAll(provider, funcs) ==
  [i \in 1..Len(funcs) |-> format_function_for_llm(provider, funcs[i])]

ToolsRaise(formatted) == \E i \in 1..Len(formatted) : formatted[i] = KeyError

\* LlmOpenAi.llm_response: every function is formatted, None results are left
\* out, the native tool is added when web_search is set
OpenAiTools(web_search, funcs) ==
  LET formatted == FormatAll("openai", funcs)
      tools == SelectSeq(formatted, LAMBDA t : t # NoTool)
  IN  [NoTools EXCEPT !.tools = IF web_search THEN Append(tools, NativeWebSearch) ELSE tools]

\* LlmAnthropic.llm_response: search_internet is skipped when web_search is set
AnthropicTools(web_search, funcs) ==
  LET kept == SelectSeq(funcs, LAMBDA f : ~(web_search /\ f.name = "search_internet"))
      formatted == FormatAll("anthropic", kept)
  IN  IF ToolsRaise(formatted) THEN [NoTools EXCEPT !.raised = TRUE]
      ELSE [NoTools EXCEPT
              !.tools = IF web_search THEN Append(formatted, NativeWebSearch) ELSE formatted]

\* LlmGrok.llm_response: search_internet is skipped when web_search is set, the
\* native search travels as search_parameters in extra_body
GrokTools(web_search, funcs) ==
  LET kept == SelectSeq(funcs, LAMBDA f : ~(web_search /\ f.name = "search_internet"))
      formatted == FormatAll("xai", kept)
  IN  IF ToolsRaise(formatted) THEN [NoTools EXCEPT !.raised = TRUE]
      ELSE [NoTools EXCEPT !.tools = formatted, !.search_parameters = web_search]

\* LlmDeepSeek.llm_response: every function is formatted
DeepSeekTools(web_search, funcs) ==
  LET formatted == FormatAll("deepseek", funcs)
  IN  IF ToolsRaise(formatted) THEN [NoTools EXCEPT !.raised = TRUE]
      ELSE [NoTools EXCEPT !.tools = formatted]

\* LlmGemini.llm_response: the functions that have a name become the
\* function declarations of one Tool
GeminiTools(web_search, funcs) ==
  LET named == SelectSeq(funcs, LAMBDA f : f.name \notin {"None", ""})
      formatted == FormatAll("google", named)
  IN  [NoTools EXCEPT !.tools = formatted]

BuildTools(provider, web_search, funcs) ==
  CASE provider = "openai" -> OpenAiTools(web_search, funcs)
    [] provider = "anthropic" -> AnthropicTools(web_search, funcs)
    [] provider = "xai" -> GrokTools(web_search, funcs)
    [] provider = "deepseek" -> DeepSeekTools(web_search, funcs)
    [] provider = "google" -> GeminiTools(web_search, funcs)

InitTools ==
  /\ credits = [u \in Users |-> NoDoc]
  /\ transactions = EmptyBag
  /\ pc = [p \in Procs |-> "idle"]
  /\ req = [p \in Procs |-> NoReq]
  /\ loc = [p \in Procs |-> NoLoc]
  /\ out = [p \in Procs |-> NoOut]
  /\ hist = [p \in Procs |-> NoHist]
  /\ initCount = [u \in Users |-> 0]
  /\ started = 0
  /\ adapter = NoAdapter
  /\ router = NoRouter
  /\ wire = NoWire
  /\ \E provider \in KnownProviders, web_search \in BOOLEAN, funcs \in AvailableFunctions :
       step = [stage |-> "functions", provider |-> provider, web_search |-> web_search,
               available_functions |-> funcs, built |-> NoTools]

\* llm_response: the tools loop and the native web search that follows it
ProcessTools ==
  /\ step.stage = "functions"
  /\ step' = [step EXCEPT !.stage = "tools",
                          !.built = BuildTools(step.provider, step.web_search,
                                               step.available_functions)]
  /\ UNCHANGED <<credits, transactions, pc, req, loc, out, hist, initCount, started,
                 adapter, router, wire>>

NextTools == ProcessTools

SpecTools == InitTools /\ [][NextTools]_vars

\* the names of the declared functions in a tool list, in order
ToolNames(tools) ==
  LET functions == SelectSeq(tools, LAMBDA t : t.kind = "tool")
  IN  [i \in 1..Len(functions) |-> functions[i].name]

FunctionNames(funcs) == [i \in 1..Len(funcs) |-> funcs[i].name]

\* C25 (as claimed): for the adapters with a native web search (OpenAI,
\* Anthropic, Grok), when the model's web_search flag is set a declared
\* search_internet is left out of the provider tool list and every other
\* declared function is kept; when the flag is not set every declared
\* function, search_internet included, is passed.
C25_WebSearchSupersedes ==
  (step.stage = "tools" /\ step.provider \in {"openai", "anthropic", "xai"}) =>
    /\ ~step.built.raised
    /\ ToolNames(step.built.tools) =
         FunctionNames(SelectSeq(step.available_functions,
                                 LAMBDA f : ~(step.web_search /\ f.name = "search_internet")))


\* ---------------------------------------------------------------------------
\* Images: the img_data step of llm_response
\* ---------------------------------------------------------------------------

MaxImages == 2

Images == {"imgA", "imgB"}

ImgData == UNION {[1..n -> Images] : n \in 0..MaxImages}

\* a provider message with the images it carries, in order
ProviderMessage(role, images) == [role |-> role, images |-> images]

\* the translated history before the images are looked at: empty, ending with
\* a user turn, ending with an assistant turn
TranslatedHistories(provider) ==
  LET assistant == IF provider = "google" THEN "model" ELSE "assistant"
  IN  {<<>>,
       <<ProviderMessage("user", <<>>)>>,
       <<ProviderMessage("user", <<>>), ProviderMessage(assistant, <<>>)>>}

\* LlmOpenAi.llm_response: if img_data, one further user message with all images
OpenAiImages(vision, img_data, messages) ==
  IF img_data # <<>> THEN Append(messages, ProviderMessage("user", img_data))
  ELSE messages

\* LlmAnthropic.llm_response: if img_data, one further user message per image
AnthropicImages(vision, img_data, messages) ==
  messages \o [i \in 1..Len(img_data) |-> ProviderMessage("user", <<img_data[i]>>)]

\* LlmDeepSeek.llm_response: if img_data, one further user message with a text
\* part and all images
DeepSeekImages(vision, img_data, messages) ==
  IF img_data # <<>> THEN Append(messages, ProviderMessage("user", img_data))
  ELSE messages

\* LlmGrok.llm_response: if img_data and self.vision
GrokImages(vision, img_data, messages) ==
  IF img_data # <<>> /\ vision THEN Append(messages, ProviderMessage("user", img_data))
  ELSE messages

\* LlmGemini._add_images_to_last_content
add_images_to_last_content(img_data, contents) ==
  LET with_user == IF contents = <<>> \/ contents[Len(contents)].role # "user"
                   THEN Append(contents, ProviderMessage("user", <<>>))
                   ELSE contents
      last == Len(with_user)
  IN  [with_user EXCEPT ![last].images = with_user[last].images \o img_data]

\* LlmGemini.llm_response: if img_data and contents
GeminiImages(vision, img_data, contents) ==
  IF img_data # <<>> /\ contents # <<>> THEN add_images_to_last_content(img_data, contents)
  ELSE contents

AttachImages(provider, vision, img_data, messages) ==
  CASE provider = "openai" -> OpenAiImages(vision, img_data, messages)
    [] provider = "anthropic" -> AnthropicImages(vision, img_data, messages)
    [] provider = "deepseek" -> DeepSeekImages(vision, img_data, messages)
    [] provider = "xai" -> GrokImages(vision, img_data, messages)
    [] provider = "google" -> GeminiImages(vision, img_data, messages)

InitImages ==
  /\ credits = [u \in Users |-> NoDoc]
  /\ transactions = EmptyBag
  /\ pc = [p \in Procs |-> "idle"]
  /\ req = [p \in Procs |-> NoReq]
  /\ loc = [p \in Procs |-> NoLoc]
  /\ out = [p \in Procs |-> NoOut]
  /\ hist = [p \in Procs |-> NoHist]
  /\ initCount = [u \in Users |-> 0]
  /\ started = 0
  /\ adapter = NoAdapter
  /\ router = NoRouter
  /\ wire = NoWire
  /\ \E provider \in KnownProviders, vision \in BOOLEAN, img_data \in ImgData :
       \E messages \in TranslatedHistories(provider) :
         step = [stage |-> "history", provider |-> provider, vision |-> vision,
                 img_data |-> img_data, messages |-> messages]

\* llm_response: the "Handle images" block
HandleImages ==
  /\ step.stage = "history"
  /\ step' = [step EXCEPT !.stage = "images",
                          !.messages = AttachImages(step.provider, step.vision,
                                                    step.img_data, step.messages)]
  /\ UNCHANGED <<credits, transactions, pc, req, loc, out, hist, initCount, started,
                 adapter, router, wire>>

NextImages == HandleImages

SpecImages == InitImages /\ [][NextImages]_vars

\* the images of a message list, in order
RECURSIVE AttachedImages(_)
AttachedImages(messages) ==
  IF messages = <<>> THEN <<>>
  ELSE messages[1].images \o AttachedImages(Tail(messages))

\* C23 (as claimed): an adapter whose model has vision = false adds no image to
\* the provider messages even when the request carries img_data; with
\* vision = true every image of img_data is attached to a user turn, in the
\* order given, also when the history is empty or does not end with a user turn.
C23_VisionGating ==
  step.stage = "images" =>
    /\ ~step.vision => AttachedImages(step.messages) = <<>>
    /\ step.vision =>
         /\ AttachedImages(step.messages) = step.img_data
         /\ \A i \in 1..Len(step.messages) :
              step.messages[i].images # <<>> => step.messages[i].role = "user"


\* ---------------------------------------------------------------------------
\* Response parsing: parse_response applied to a provider response made of
\* text blocks and tool-invocation blocks
\* ---------------------------------------------------------------------------

MaxBlocks == 3

\* the texts of text blocks, as token sequences; " " is white space
BlockTexts == {<<"It", "is">>, <<" ", "sunny">>}

TextBlock(text) == [type |-> "text", text |-> text, invocation |-> "None"]

\* a tool-invocation block as the provider encodes it (ProviderToolCall)
ToolBlock(provider, name, call_id) ==
  [type |-> "tool", text |-> <<>>,
   invocation |-> ProviderToolCall(provider,
                    [name |-> name, arguments |-> [form |-> "dict", value |-> "location NYC"],
                     call_id |-> call_id])]

ResponseBlocks(provider) ==
  {TextBlock(t) : t \in BlockTexts}
    \cup {ToolBlock(provider, n, c) : n \in {"get_weather", "get_time"}, c \in {"call_123"}}

\* the response shapes: the OpenAI Responses API (output items), the chat
\* completions format of OpenAI, DeepSeek and Grok (one content text, a list of
\* tool_calls), Anthropic content blocks, Gemini parts
ResponseFormats == {"responses", "openai", "deepseek", "xai", "anthropic", "google"}

FormatProvider(format) == IF format = "responses" THEN "openai" ELSE format

ChatFormats == {"openai", "deepseek", "xai"}

TextsOf(blocks) == SelectSeq(blocks, LAMBDA b : b.type = "text")

InvocationsOf(blocks) == SelectSeq(blocks, LAMBDA b : b.type = "tool")

\* the responses a provider can give in a format: any block sequence; a chat
\* completion has a single content text
Responses(format) ==
  {blocks \in UNION {[1..n -> ResponseBlocks(FormatProvider(format))] : n \in 0..MaxBlocks} :
     format \in ChatFormats => Len(TextsOf(blocks)) <= 1}

RECURSIVE lstrip(_)
lstrip(text) ==
  IF text # <<>> /\ Head(text) = " " THEN lstrip(Tail(text)) ELSE text

RECURSIVE rstrip(_)
rstrip(text) ==
  IF text # <<>> /\ text[Len(text)] = " " THEN rstrip(SubSeq(text, 1, Len(text) - 1)) ELSE text

\* str.strip()
strip(text) == rstrip(lstrip(text))

Parsed(keys, message_text, function_call) ==
  [keys |-> keys, message |-> message_text, function_call |-> function_call]

\* result = {}; if message_text: result["message"] = ...; if function_call: ...
ResultKeys(message_text, function_call) ==
  (IF message_text # <<>> THEN {"message"} ELSE {})
    \cup (IF function_call # NoFunctionCall THEN {"function_call"} ELSE {})

\* LlmOpenAi.parse_response, "output" branch: every message item assigns
\* message_text, every function_call item assigns function_call
RECURSIVE OpenAiOutput(_, _, _)
OpenAiOutput(output, message_text, function_call) ==
  IF output = <<>> THEN [message_text |-> message_text, function_call |-> function_call]
  ELSE LET item == Head(output)
       IN  IF item.type = "text"
             THEN OpenAiOutput(Tail(output), item.text, function_call)
             ELSE OpenAiOutput(Tail(output), message_text,
                               ParseFunctionCall("openai", item.invocation))

\* choices[0].message: content and tool_calls[0]
ChatMessage(provider, blocks) ==
  [message_text |-> IF TextsOf(blocks) = <<>> THEN <<>> ELSE TextsOf(blocks)[1].text,
   function_call |-> IF InvocationsOf(blocks) = <<>> THEN NoFunctionCall
                     ELSE ParseFunctionCall(provider, InvocationsOf(blocks)[1].invocation)]

\* LlmOpenAi.parse_response
OpenAiParseResponse(format, blocks) ==
  LET r == IF format = "responses" THEN OpenAiOutput(blocks, <<>>, NoFunctionCall)
           ELSE ChatMessage("openai", blocks)
      keys == ResultKeys(r.message_text, r.function_call)
  IN  IF keys = {} THEN Parsed({"message"}, <<"No", "response", "generated">>, NoFunctionCall)
      ELSE Parsed(keys, r.message_text, r.function_call)

\* LlmAnthropic.parse_response: text blocks are concatenated, every tool_use
\* block assigns function_call
RECURSIVE AnthropicContent(_, _, _)
AnthropicContent(content, message_text, function_call) ==
  IF content = <<>> THEN [message_text |-> message_text, function_call |-> function_call]
  ELSE LET block == Head(content)
       IN  IF block.type = "text"
             THEN AnthropicContent(Tail(content), message_text \o block.text, function_call)
             ELSE AnthropicContent(Tail(content), message_text,
                                   ParseFunctionCall("anthropic", block.invocation))

AnthropicParseResponse(blocks) ==
  LET r == AnthropicContent(blocks, <<>>, NoFunctionCall)
  IN  Parsed(ResultKeys(r.message_text, r.function_call), r.message_text, r.function_call)

\* LlmGemini._parse_response: text parts are concatenated, every function_call
\* part assigns function_call; the text is stripped
RECURSIVE GeminiParts(_, _, _)
GeminiParts(parts, message_text, function_call) ==
  IF parts = <<>> THEN [message_text |-> message_text, function_call |-> function_call]
  ELSE LET part == Head(parts)
       IN  IF part.type = "tool"
             THEN GeminiParts(Tail(parts), message_text,
                              ParseFunctionCall("google", part.invocation))
             ELSE GeminiParts(Tail(parts), message_text \o part.text, function_call)

GeminiParseResponse(blocks) ==
  LET r == GeminiParts(blocks, <<>>, NoFunctionCall)
      keys == ResultKeys(strip(r.message_text), r.function_call)
  IN  IF keys = {} THEN Parsed({"message"}, <<>>, NoFunctionCall)
      ELSE Parsed(keys, strip(r.message_text), r.function_call)

\* LlmDeepSeek.parse_response: result = {"message": message_text} always
DeepSeekParseResponse(blocks) ==
  LET r == ChatMessage("deepseek", blocks)
  IN  Parsed({"message"} \cup ResultKeys(r.message_text, r.function_call),
             r.message_text, r.function_call)

\* LlmGrok.parse_response
GrokParseResponse(blocks) ==
  LET r == ChatMessage("xai", blocks)
  IN  Parsed({"message"} \cup ResultKeys(r.message_text, r.function_call),
             r.message_text, r.function_call)

parse_response(format, blocks) ==
  CASE format \in {"responses", "openai"} -> OpenAiParseResponse(format, blocks)
    [] format = "anthropic" -> AnthropicParseResponse(blocks)
    [] format = "google" -> GeminiParseResponse(blocks)
    [] format = "deepseek" -> DeepSeekParseResponse(blocks)
    [] format = "xai" -> GrokParseResponse(blocks)

InitParse ==
  /\ credits = [u \in Users |-> NoDoc]
  /\ transactions = EmptyBag
  /\ pc = [p \in Procs |-> "idle"]
  /\ req = [p \in Procs |-> NoReq]
  /\ loc = [p \in Procs |-> NoLoc]
  /\ out = [p \in Procs |-> NoOut]
  /\ hist = [p \in Procs |-> NoHist]
  /\ initCount = [u \in Users |-> 0]
  /\ started = 0
  /\ adapter = NoAdapter
  /\ router = NoRouter
  /\ wire = NoWire
  /\ \E format \in ResponseFormats :
       \E blocks \in Responses(format) :
         step = [stage |-> "response", format |-> format, blocks |-> blocks,
                 result |-> Parsed({}, <<>>, NoFunctionCall)]

\* llm_response: return self.parse_response(response)
ParseResponse ==
  /\ step.stage = "response"
  /\ step' = [step EXCEPT !.stage = "parsed",
                          !.result = parse_response(step.format, step.blocks)]
  /\ UNCHANGED <<credits, transactions, pc, req, loc, out, hist, initCount, started,
                 adapter, router, wire>>

NextParse == ParseResponse

SpecParse == InitParse /\ [][NextParse]_vars

\* the texts of the text blocks, concatenated in order
RECURSIVE Concatenation(_)
Concatenation(blocks) ==
  IF blocks = <<>> THEN <<>>
  ELSE Head(blocks).text \o Concatenation(Tail(blocks))

\* function_call is the canonical form of the invocation: its name, its
\* arguments as a map, its call id
IsInvocation(function_call, invocation) ==
  /\ function_call.name = invocation.name
  /\ function_call.arguments.form = "dict"
  /\ function_call.arguments.value = invocation.arguments.value
  /\ function_call.call_id = invocation.id

\* C24 (as claimed): for every adapter and every provider response made of text
\* blocks and tool-invocation blocks, the canonical message is the
\* concatenation of all text blocks in order, and function_call holds one of
\* the response's invocations (name, arguments as a map, call id), and none
\* when the response has no invocation.
C24_ResponseParsing ==
  step.stage = "parsed" =>
    /\ Concatenation(step.blocks) # <<>> =>
         /\ "message" \in step.result.keys
         /\ step.result.message = Concatenation(step.blocks)
    /\ InvocationsOf(step.blocks) = <<>> => "function_call" \notin step.result.keys
    /\ InvocationsOf(step.blocks) # <<>> =>
         /\ "function_call" \in step.result.keys
         /\ \E i \in 1..Len(step.blocks) :
              /\ step.blocks[i].type = "tool"
              /\ IsInvocation(step.result.function_call, step.blocks[i].invocation)


\* ---------------------------------------------------------------------------
\* LlmAnthropic.llm_response: the provider call of a reasoning model
\* ---------------------------------------------------------------------------

\* why a provider call raised
CallErrors == {"timeout", "overloaded"}

\* kwargs of messages.create: "system" is set when the instruction is not empty
Kwargs(instruction) ==
  [system |-> IF instruction \in {"None", ""} THEN "None" ELSE instruction]

\* one call of self.client.messages.create and what came of it
ProviderCall(kwargs, thinking, raised, detail, reply) ==
  [kwargs |-> kwargs, thinking |-> thinking, raised |-> raised, detail |-> detail,
   reply |-> reply]

NoReply == [text |-> <<>>, call |-> "None"]

\* where llm_response goes when the first call raised: the except clause of
\* the inner try (reasoning model), the outer except clause (any other model)
after_first_failure_always_fallback(reasoning_model) == "fallback"

after_first_failure(reasoning_model) ==
  IF reasoning_model THEN "fallback" ELSE "failed"

InitRetry ==
  /\ credits = [u \in Users |-> NoDoc]
  /\ transactions = EmptyBag
  /\ pc = [p \in Procs |-> "idle"]
  /\ req = [p \in Procs |-> NoReq]
  /\ loc = [p \in Procs |-> NoLoc]
  /\ out = [p \in Procs |-> NoOut]
  /\ hist = [p \in Procs |-> NoHist]
  /\ initCount = [u \in Users |-> 0]
  /\ started = 0
  /\ adapter = NoAdapter
  /\ router = NoRouter
  /\ wire = NoWire
  /\ \E reasoning_model \in BOOLEAN, instruction \in {"None", "be brief"} :
       step = [stage |-> "kwargs", reasoning_model |-> reasoning_model,
               kwargs |-> Kwargs(instruction), calls |-> <<>>, fault |-> "none",
               result |-> Returned({}, <<>>, "None")]

\* self.client.messages.create(**kwargs, thinking={"type": "enabled"}) for a
\* reasoning model, self.client.messages.create(**kwargs) for any other
FirstCall ==
  /\ step.stage = "kwargs"
  /\ \/ \E reply \in Replies :
          step' = [step EXCEPT
                     !.stage = "response",
                     !.calls = Append(@, ProviderCall(step.kwargs, step.reasoning_model,
                                                      FALSE, "None", reply))]
     \/ \E detail \in CallErrors :
          step' = [step EXCEPT
                     !.stage = after_first_failure(step.reasoning_model),
                     !.calls = Append(@, ProviderCall(step.kwargs, step.reasoning_model,
                                                      TRUE, detail, NoReply))]
  /\ UNCHANGED <<credits, transactions, pc, req, loc, out, hist, initCount, started,
                 adapter, router, wire>>

\* except: response = self.client.messages.create(**kwargs)
FallbackCall ==
  /\ step.stage = "fallback"
  /\ \/ \E reply \in Replies :
          step' = [step EXCEPT
                     !.stage = "response",
                     !.calls = Append(@, ProviderCall(step.kwargs, FALSE, FALSE, "None", reply))]
     \/ \E detail \in CallErrors :
          step' = [step EXCEPT
                     !.stage = "failed",
                     !.calls = Append(@, ProviderCall(step.kwargs, FALSE, TRUE, detail, NoReply))]
  /\ UNCHANGED <<credits, transactions, pc, req, loc, out, hist, initCount, started,
                 adapter, router, wire>>

\* return self.parse_response(response); parse_response may raise
ParseAndReturn ==
  /\ step.stage = "response"
  /\ \E fault \in {"none", "parse"} :
       step' = [step EXCEPT
                  !.stage = "returned", !.fault = fault,
                  !.result = AnthropicLlmResponse(fault, step.calls[Len(step.calls)].reply)]
  /\ UNCHANGED <<credits, transactions, pc, req, loc, out, hist, initCount, started,
                 adapter, router, wire>>

\* except Exception as e: return {"message": f"Claude Error: {str(e)}", ...}
ReturnClaudeError ==
  /\ step.stage = "failed"
  /\ step' = [step EXCEPT
                !.stage = "returned",
                !.result = ErrorDict(<<"Claude", "Error:">>, step.calls[Len(step.calls)].detail)]
  /\ UNCHANGED <<credits, transactions, pc, req, loc, out, hist, initCount, started,
                 adapter, router, wire>>

NextRetry == FirstCall \/ FallbackCall \/ ParseAndReturn \/ ReturnClaudeError

SpecRetry == InitRetry /\ [][NextRetry]_vars

\* C29: Anthropic reasoning-model retry.  A reasoning model's first provider
\* call has thinking enabled; a second call is made only after the first
\* raised, it is made without thinking and with the same arguments; there are
\* never more than two calls; a model that is not a reasoning model makes
\* exactly one call, without thinking.  The returned response is the parsed
\* reply of the call that succeeded, and the "Claude Error" response naming
\* the last failure when every call raised.
C29_ReasoningRetry ==
  LET calls == step.calls
      n == Len(calls)
  IN  step.stage \in {"kwargs", "fallback", "response", "failed", "returned"} =>
        /\ n <= 2
        /\ n >= 1 => calls[1].thinking = step.reasoning_model
        /\ n = 2 => /\ step.reasoning_model
                    /\ calls[1].raised
                    /\ ~calls[2].thinking
                    /\ calls[2].kwargs = calls[1].kwargs
        /\ step.stage \in {"response", "failed", "returned"} =>
             /\ n = IF step.reasoning_model /\ calls[1].raised THEN 2 ELSE 1
             /\ \A i \in 1..(n - 1) : calls[i].raised
        /\ (step.stage = "returned" /\ step.fault = "none") =>
             step.result = IF calls[n].raised
                             THEN ErrorDict(<<"Claude", "Error:">>, calls[n].detail)
                             ELSE AnthropicParse(calls[n].reply)

\* a reasoning model whose call with thinking raised and whose call without
\* thinking was answered
C29_Witness ==
  /\ step.stage = "returned"
  /\ step.reasoning_model
  /\ Len(step.calls) = 2
  /\ step.calls[1].raised /\ ~step.calls[2].raised
  /\ step.result = AnthropicParse(step.calls[2].reply)
  /\ step.calls[2].reply.text = <<"hi">>


-----------------------------------------------------------------------------
(* Chat calls against the stored balance                                      *)

\* C26 (as claimed): the balance never goes negative.  As long as every
\* recharge amount is non-negative (the model costs are), the stored balance
\* of every account is >= 0, for any number of concurrent chat calls of the
\* user, each of which checks sufficiency and later debits in two separate
\* ledger accesses.
C26_BalanceNeverNegative ==
  (/\ \A p \in Procs : req[p].amount >= 0
   /\ \A t \in BagToSet(transactions) : t.amount >= 0) =>
    \A u \in Users : credits[u].exists => credits[u].balance >= 0

\* C28 (as claimed): the insufficiency verdict and the reported balance agree.
\* In every insufficient-credit response the reported credit_remaining is
\* strictly less than the model cost that was checked, also when a recharge
\* of the same user runs during the call.
C28_VerdictMatchesReportedBalance ==
  \A p \in Procs :
    (IsChat(p) /\ pc[p] = "done" /\ out[p].message = InsufficientMessage) =>
      out[p].balance < loc[p].cost


-----------------------------------------------------------------------------
(* One chat call for any model of the configuration, or for a model without   *)
(* config entry, accepted against a new account or an account holding the      *)
(* free credits; one further request of the user may arrive during the call.   *)

InitChat ==
  \E d \in Procs, m \in ModelNames \ {""}, q \in QueryTypes :
    \E doc \in {NoDoc, [exists |-> TRUE, balance |-> free_credits, total_used |-> 0]} :
      /\ credits = [u \in Users |-> doc]
      /\ transactions = EmptyBag
      /\ pc = [p \in Procs |-> IF p = d THEN "gb_get" ELSE "idle"]
      /\ req = [p \in Procs |->
                  IF p = d THEN [NoReq EXCEPT !.op = "chat", !.user = DebitUser, !.model = m,
                                              !.chat = "dict", !.qtype = q]
                           ELSE NoReq]
      /\ loc = [p \in Procs |->
                  IF p = d THEN [NoLoc EXCEPT !.ret = "check", !.cost = get_model_cost(m)]
                           ELSE NoLoc]
      /\ out = [p \in Procs |-> NoOut]
      /\ hist = [p \in Procs |->
                   IF p = d THEN [NoHist EXCEPT !.pre = IF doc.exists THEN doc.balance
                                                        ELSE free_credits,
                                                !.existed = doc.exists]
                            ELSE NoHist]
      /\ initCount = [u \in Users |-> IF doc.exists THEN 1 ELSE 0]
      /\ started = MaxRequests - 1
      /\ adapter = NoAdapter
      /\ router = NoRouter
      /\ wire = NoWire
      /\ step = NoStep

SpecChat == InitChat /\ [][Next]_vars

\* C27: no charge without a response.  A chat call for a model whose adapter
\* cannot be built (no config entry, unknown provider, constructor raising)
\* never invokes an adapter, never debits and appends no transaction; once it
\* has passed the sufficiency check it ends with status 500 and a
\* credit_remaining, which is, like the stored balance, the balance before the
\* call when no other request of the user was served during the call.
C27_NoChargeWithoutResponse ==
  \A p \in Procs :
    (IsChat(p) /\ req[p].chat = "dict" /\ req[p].model # ""
       /\ create_llm_raises(req[p].model)) =>
      /\ hist[p].invoked = 0 /\ hist[p].responded = 0
      /\ hist[p].debits = 0 /\ hist[p].usage = 0
      /\ pc[p] \notin {"dd_get", "dd_init", "dd_reget", "dd_update", "dd_add"}
      /\ (pc[p] = "done" /\ ~hist[p].short) =>
           /\ out[p] = JsonLlmError(out[p].balance)
           /\ hist[p].alone =>
                /\ out[p].balance = hist[p].pre
                /\ Bal(req[p].user) = hist[p].pre

\* a call for a model of an unknown provider ran alone and ended with status 500
C27_Witness ==
  \E p \in Procs :
    /\ IsChat(p) /\ req[p].model = "llmlegacy" /\ pc[p] = "done"
    /\ hist[p].alone /\ hist[p].checks = 1
    /\ out[p].status = 500 /\ out[p].balance = free_credits
    /\ credits[req[p].user].balance = free_credits

=============================================================================
